---- MODULE Spec2Model ----
(***************************************************************************)
(* A model of the file search system: the index catalog (database.py),    *)
(* the per-index store, the indexing runs (indexer.py) and the web        *)
(* handlers that drive them (main.py).                                     *)
(*                                                                         *)
(* Granularity: one step per database operation (each is one critical     *)
(* section of meta_db_lock or index_db_lock).  The handlers of main.py    *)
(* are "async def" without await, so one handler runs at a time (the      *)
(* variable h); indexer threads (the variable runs) interleave with the   *)
(* handler and with each other between database operations.               *)
(***************************************************************************)
EXTENDS Integers, Sequences, FiniteSets, TLC

\* ------------------------------------------------------------- bounds ---
MaxIds == 3        \* rows ever inserted into the catalog (AUTOINCREMENT ids)
MaxClock == 1      \* the wall clock runs over the seconds 0..MaxClock
NFiles == 2        \* files in the target directory of the index
MaxRuns == 2       \* indexer threads started in one behaviour
MaxCrashes == 1    \* process crashes in one behaviour
MaxFaults == 1     \* storage faults injected in one behaviour
MaxStep == 2       \* a rewrite moves a modification time on by 1..MaxStep seconds

Ids == 1..MaxIds
Clock == 0..MaxClock
Files == 1..NFiles
Runs == 1..MaxRuns

NULL == -1         \* Python None / SQL NULL for an integer column

\* Index names, and len(name), which add_index_config puts in the file name.
Names == {"a", "b", "cc"}
NameLen(n) == IF n = "cc" THEN 2 ELSE 1
Lens == {NameLen(n) : n \in Names}

\* db_filename = index_<YYYYmmddHHMMSS>_<len(name)>.db
DbPath(now, name) == <<now, NameLen(name)>>
Paths == Clock \X Lens

\* ------------------------------------------------------------ catalog ---
\* A row of the table indexes (target_directory and allowed_extensions are
\* fixed by the directory model below).
NoRow == [name |-> "", db_path |-> <<NULL, NULL>>, last_indexed_at |-> NULL, status |-> "absent"]
NewRow(name, path) == [name |-> name, db_path |-> path, last_indexed_at |-> NULL, status |-> "not_indexed"]

Present(rows) == {i \in Ids : rows[i] # NoRow}

\* The UNIQUE constraint on indexes.name.
NameTakenNever(rows, name) == FALSE
NameTaken(rows, name) == \E i \in Present(rows) : rows[i].name = name

\* The UNIQUE constraint on indexes.db_path.
PathTaken(rows, path) == \E i \in Present(rows) : rows[i].db_path = path

\* UPDATE indexes SET status = ? [, last_indexed_at = ?] WHERE id = ?
\* (no row with that id: the UPDATE changes nothing).
UpdateIndexStatusBoth(rows, id, status, last) ==
  IF rows[id] = NoRow THEN rows
  ELSE [rows EXCEPT ![id] = [@ EXCEPT !.status = status, !.last_indexed_at = last]]
UpdateIndexStatus(rows, id, status, last) ==
  IF rows[id] = NoRow THEN rows
  ELSE [rows EXCEPT ![id] = [@ EXCEPT !.status = status,
                                      !.last_indexed_at = IF last # NULL THEN last ELSE @]]

\* -------------------------------------------------------------- store ---
\* The indexing_status row (id = 1) of a store; NoStatus: the table is empty.
\* estimated_end_time: 0 as passed by the non-terminal writes, 1 for time.time().
\* run (not a column): the run the write belongs to, 0 for none.
NoStatus == [status |-> "none", total |-> NULL, processed |-> NULL, estimated_end_time |-> NULL,
             run |-> 0]
Status(s, t, p, e, w) == [status |-> s, total |-> t, processed |-> p, estimated_end_time |-> e,
                          run |-> w]
Now == 1

Terminal == {"completed", "stopped", "failed"}

\* A store: the SQLite file at a db_path.  file: the file exists; hasFiles,
\* hasFts: the tables files and files_fts exist; hasAux: the tables settings,
\* directory_history and indexing_status exist (created together); flag: the
\* settings row indexing_stop_requested; st: the indexing_status row; files,
\* fts: the rows of files and files_fts.
NoStore == [file |-> FALSE, hasFiles |-> FALSE, hasFts |-> FALSE, hasAux |-> FALSE,
            flag |-> FALSE, st |-> NoStatus, files |-> {}, fts |-> {}]

\* get_index_db_connection: sqlite3.connect creates the file when missing.
Connect(s) == IF s.file THEN s ELSE [NoStore EXCEPT !.file = TRUE]

\* create_index_tables: the store after the call and whether it raised.  Every
\* CREATE TABLE runs in autocommit, so the tables created before a failing
\* statement stay.
CreateIndexTables(s0) ==
  LET s == Connect(s0) IN
  IF ~s.hasFiles THEN
    IF s.hasAux
    THEN \* CREATE TABLE files succeeds, CREATE TABLE settings: already exists
         [ok |-> FALSE, store |-> [s EXCEPT !.hasFiles = TRUE, !.files = {}]]
    ELSE IF s.hasFts
    THEN \* CREATE VIRTUAL TABLE files_fts: already exists
         [ok |-> FALSE, store |-> [s EXCEPT !.hasFiles = TRUE, !.files = {}, !.hasAux = TRUE,
                                            !.st = NoStatus, !.flag = FALSE]]
    ELSE [ok |-> TRUE, store |-> [s EXCEPT !.hasFiles = TRUE, !.files = {}, !.hasAux = TRUE,
                                           !.st = NoStatus, !.hasFts = TRUE, !.fts = {},
                                           !.flag = FALSE]]
  ELSE [ok |-> TRUE, store |-> IF s.hasFts THEN s ELSE [s EXCEPT !.hasFts = TRUE, !.fts = {}]]

\* ---------------------------------------------------------- directory ---
\* A file of the target directory with an allowed extension: content 0 is a
\* file whose extracted text is empty.
NoFile == [present |-> FALSE, content |-> 0, mtime |-> 0]
FileIn(f) == [present |-> TRUE, content |-> f % 2, mtime |-> 0]

\* The files of S from f on, in ascending order.
RECURSIVE Asc(_, _)
Asc(S, f) ==
  IF f > NFiles THEN <<>>
  ELSE (IF f \in S THEN <<f>> ELSE <<>>) \o Asc(S, f + 1)

\* os.walk filtered by extension (indexer.py 119-124 and 273-277).
Scan(dir) == {f \in Files : dir[f].present}

Abs(x) == IF x < 0 THEN -x ELSE x

\* A row of the table files.
FileRow(f, c, m) == [path |-> f, content |-> c, mdate |-> m]
RowPaths(rows) == {x.path : x \in rows}

\* INSERT INTO files ...; INSERT INTO files_fts ... if content (indexer.py
\* 174-188).  A sqlite3.Error (no table, UNIQUE path) is caught: the statements
\* before it stay in the transaction.
InsertFileAlwaysShadow(s, f, c, m) ==
  IF ~s.hasFiles \/ f \in RowPaths(s.files) THEN s
  ELSE [s EXCEPT !.files = @ \cup {FileRow(f, c, m)},
                 !.fts = IF s.hasFts THEN @ \cup {f} ELSE @]
InsertFile(s, f, c, m) ==
  IF ~s.hasFiles \/ f \in RowPaths(s.files) THEN s
  ELSE LET s1 == [s EXCEPT !.files = @ \cup {FileRow(f, c, m)}] IN
       IF c # 0 /\ s.hasFts THEN [s1 EXCEPT !.fts = @ \cup {f}] ELSE s1

\* ---------------------------------------------------------------- run ---
\* An indexer thread.  pc: its position; mode: "full" (index_files) or "update"
\* (update_index_files); id, path: its arguments; conn: conn is not None; work:
\* files_to_index; total: total_files (NULL: unbound); i: the loop variable i
\* (NULL: unbound); k: files processed so far.
\* Not program state: erred (an error escaped the per-file scopes), obs (the k
\* of the poll that saw the stop flag set), wroteAfter (a file was written
\* after that poll), reqMid (a stop was requested while a poll was still
\* ahead), term / termCat (the last status this run wrote to the store / to
\* the catalog), before (the rows of files the run found, where the initial
\* state fixes them).
NoRun == [pc |-> "idle", mode |-> "full", id |-> NULL, path |-> <<NULL, NULL>>, conn |-> FALSE,
          work |-> <<>>, total |-> NULL, i |-> NULL, k |-> 0,
          erred |-> FALSE, obs |-> NULL, wroteAfter |-> FALSE, reqMid |-> FALSE,
          term |-> NoStatus, termCat |-> "none", before |-> {}]

Ended == {"done", "dead", "killed"}
Active(r) == r.pc \notin (Ended \cup {"idle"})

VARIABLES
  indexes,   \* meta.db: the table indexes, id -> row or NoRow
  nextId,    \* meta.db: the next AUTOINCREMENT id
  clock,     \* datetime.now(), in seconds
  stores,    \* db_path -> store
  h,         \* the handler (or catalog call) in progress, or the last one finished
  fs,        \* the target directory: file -> present, content, mtime
  runs,      \* the indexer threads: run -> its locals and position
  crashes,   \* process crashes so far
  faults     \* storage faults injected so far

vars == <<indexes, nextId, clock, stores, h, fs, runs, crashes, faults>>
catVars == <<indexes, nextId, clock>>
runVars == <<fs, runs, crashes, faults>>

\* ------------------------------------------------------------ handler ---
\* kind: which call; pc: where it is ("done": it returned or raised); id, name,
\* path: its arguments and locals; ret: the value returned (NULL: none);
\* raised: it raised; run: the thread it started; todo: the indexes the startup
\* event has still to visit; preIndexes, preStores: the catalog and the stores
\* as a catalog call found them (preIndexes: the rows the startup event read).
Idle == [kind |-> "none", pc |-> "done", id |-> NULL, name |-> "", path |-> <<NULL, NULL>>,
         ret |-> NULL, raised |-> FALSE, initFailed |-> FALSE,
         run |-> 0, todo |-> {}, preIndexes |-> <<>>, preStores |-> <<>>]

HandlerFree == h.pc = "done"

Call(kind, pc) == [Idle EXCEPT !.kind = kind, !.pc = pc]

\* A call of the catalog, with the catalog and the stores as it finds them.
CatalogCall(kind, pc) == [Call(kind, pc) EXCEPT !.preIndexes = indexes, !.preStores = stores]

\* ---------------------------------------------------- add_index_config ---
\* Lines 171-193: under meta_db_lock, pick the file name and INSERT the row.
\* A violated UNIQUE constraint (name or db_path) is sqlite3.IntegrityError:
\* return -1.
AddInsert(name) ==
  /\ HandlerFree
  /\ nextId <= MaxIds
  /\ LET path == DbPath(clock, name)
         c == [CatalogCall("add", "create") EXCEPT !.name = name, !.path = path]
     IN IF NameTaken(indexes, name) \/ PathTaken(indexes, path)
        THEN /\ h' = [c EXCEPT !.pc = "done", !.ret = -1]
             /\ UNCHANGED <<indexes, nextId>>
        ELSE /\ indexes' = [indexes EXCEPT ![nextId] = NewRow(name, path)]
             /\ nextId' = nextId + 1
             /\ h' = [c EXCEPT !.id = nextId]
  /\ UNCHANGED <<clock, stores, runVars>>

\* Lines 197-199: create_index_tables(db_path), which may raise (its own
\* schema conflict, or any sqlite3.Error of the storage layer).
AddCreateTables ==
  /\ h.kind = "add" /\ h.pc = "create"
  /\ \/ LET r == CreateIndexTables(stores[h.path]) IN
        /\ stores' = [stores EXCEPT ![h.path] = r.store]
        /\ h' = IF r.ok THEN [h EXCEPT !.pc = "done", !.ret = h.id]
                ELSE [h EXCEPT !.pc = "rollback", !.initFailed = TRUE]
     \/ \* the storage layer fails: sqlite3.connect or the first statement raises
        /\ \E made \in BOOLEAN :
             stores' = [stores EXCEPT ![h.path] = IF made THEN Connect(@) ELSE @]
        /\ h' = [h EXCEPT !.pc = "rollback", !.initFailed = TRUE]
  /\ UNCHANGED <<indexes, nextId, clock, runVars>>

\* Lines 200-213: DELETE FROM indexes WHERE id = ?, then re-raise.
RollbackNothing(rows, id) == rows
RollbackRows(rows, id) == [rows EXCEPT ![id] = NoRow]

AddRollback ==
  /\ h.kind = "add" /\ h.pc = "rollback"
  /\ indexes' = RollbackRows(indexes, h.id)
  /\ h' = [h EXCEPT !.pc = "done", !.raised = TRUE]
  /\ UNCHANGED <<nextId, clock, stores, runVars>>

\* ------------------------------------------------- delete_index_config ---
\* Lines 241-253 and 262-264: SELECT db_path; no row: return False; else
\* DELETE the row and commit.
DeleteRow(id) ==
  /\ HandlerFree
  /\ IF indexes[id] = NoRow
     THEN /\ h' = [CatalogCall("delete", "done") EXCEPT !.id = id, !.ret = 0]
          /\ UNCHANGED indexes
     ELSE /\ h' = [CatalogCall("delete", "remove") EXCEPT !.id = id, !.path = indexes[id].db_path]
          /\ indexes' = [indexes EXCEPT ![id] = NoRow]
  /\ UNCHANGED <<nextId, clock, stores, runVars>>

\* Lines 255-261: os.remove(db_path) if the file exists; return True.
RemoveArtifactNever(s) == s
RemoveArtifact(s) == IF s.file THEN NoStore ELSE s

DeleteArtifact ==
  /\ h.kind = "delete" /\ h.pc = "remove"
  /\ stores' = [stores EXCEPT ![h.path] = RemoveArtifact(@)]
  /\ h' = [h EXCEPT !.pc = "done", !.ret = 1]
  /\ UNCHANGED <<indexes, nextId, clock, runVars>>

\* -------------------------------------------------------- environment ---
\* A second of wall-clock time passes.
Tick ==
  /\ clock < MaxClock
  /\ clock' = clock + 1
  /\ UNCHANGED <<indexes, nextId, stores, h, runVars>>

\* The storage file of an index is removed outside the program (the case
\* delete_index_config, lines 259-260, logs as a warning).
ArtifactLost(p) ==
  /\ HandlerFree
  /\ stores[p].file
  /\ stores' = [stores EXCEPT ![p] = NoStore]
  /\ UNCHANGED <<indexes, nextId, clock, h, runVars>>

\* ------------------------------------------------- the indexer threads ---
St(r) == stores[runs[r].path]
PutStore(r, s) == stores' = [stores EXCEPT ![runs[r].path] = s]
Goto(r, rec) == runs' = [runs EXCEPT ![r] = rec]
At(r, pc) == runs[r].pc = pc

\* The counter the terminal writes store as processed_files: the loop
\* variable i of index_files, processed_count of update_index_files.
CounterPastEnd(x) == x.total + 1
Counter(x) == IF x.mode = "full" THEN x.i ELSE x.k

\* update_indexing_status and is_indexing_stop_requested raise
\* sqlite3.OperationalError when their table is missing.
HasAux(s) == s.file /\ s.hasAux

\* update_indexing_status(conn, db_path, status, total, processed, start, eet)
\* by run r, then continue at pc next; on an error, the except clause.
RunWrite(r, st, next) ==
  IF HasAux(St(r))
  THEN /\ PutStore(r, [St(r) EXCEPT !.st = st])
       /\ Goto(r, [runs[r] EXCEPT !.pc = next, !.term = st])
  ELSE /\ Goto(r, [runs[r] EXCEPT !.pc = "except", !.erred = TRUE])
       /\ UNCHANGED stores

\* update_index_status(index_id, status[, datetime.now()]) by run r.
RunCatalog(r, status, last, next) ==
  /\ indexes' = UpdateIndexStatus(indexes, runs[r].id, status, last)
  /\ Goto(r, [runs[r] EXCEPT !.pc = next, !.termCat = status])

\* indexer.py 80 / 250: update_index_status(index_id, 'running').
RunSetRunning(r) ==
  /\ At(r, "setRunning")
  /\ RunCatalog(r, "running", NULL, "connect")
  /\ UNCHANGED <<nextId, clock, stores, h, fs, crashes, faults>>

\* indexer.py 84 / 257: conn = get_index_db_connection(db_path).
RunConnect(r) ==
  /\ At(r, "connect")
  /\ PutStore(r, Connect(St(r)))
  /\ Goto(r, [runs[r] EXCEPT !.conn = TRUE,
                             !.pc = IF runs[r].mode = "full" THEN "drop" ELSE "checkTable"])
  /\ UNCHANGED <<catVars, h, fs, crashes, faults>>

\* indexer.py 92-94: DROP TABLE IF EXISTS files_fts; DROP TABLE IF EXISTS files.
DropTables(s) == [s EXCEPT !.hasFts = FALSE, !.fts = {}, !.hasFiles = FALSE, !.files = {}]

RunDrop(r) ==
  /\ At(r, "drop")
  /\ PutStore(r, DropTables(St(r)))
  /\ Goto(r, [runs[r] EXCEPT !.pc = "create"])
  /\ UNCHANGED <<catVars, h, fs, crashes, faults>>

\* indexer.py 97-116: CREATE TABLE files; CREATE VIRTUAL TABLE files_fts.  A
\* table that exists (another run re-created it) is sqlite3.OperationalError.
RunCreate(r) ==
  /\ At(r, "create")
  /\ LET s == St(r) IN
     IF s.hasFiles
     THEN /\ Goto(r, [runs[r] EXCEPT !.pc = "except", !.erred = TRUE])
          /\ UNCHANGED stores
     ELSE IF s.hasFts
     THEN /\ PutStore(r, [s EXCEPT !.hasFiles = TRUE, !.files = {}])
          /\ Goto(r, [runs[r] EXCEPT !.pc = "except", !.erred = TRUE])
     ELSE /\ PutStore(r, [s EXCEPT !.hasFiles = TRUE, !.files = {}, !.hasFts = TRUE, !.fts = {}])
          /\ Goto(r, [runs[r] EXCEPT !.pc = "scan"])
  /\ UNCHANGED <<catVars, h, fs, crashes, faults>>

\* indexer.py 119-130: scan the directory, total_files = len(files_to_index),
\* update_indexing_status("started", total_files, 0, start_time, 0).
FullWorkButLast(dir) ==
  [n \in 1..(Cardinality(Scan(dir)) - 1) |-> <<"full", Asc(Scan(dir), 1)[n]>>]
FullWork(dir) == [n \in 1..Cardinality(Scan(dir)) |-> <<"full", Asc(Scan(dir), 1)[n]>>]

RunScan(r) ==
  /\ At(r, "scan")
  /\ LET work == FullWork(fs)
         total == Len(work)
         st == Status("started", total, 0, 0, r)
     IN IF HasAux(St(r))
        THEN /\ PutStore(r, [St(r) EXCEPT !.st = st])
             /\ Goto(r, [runs[r] EXCEPT !.work = work, !.total = total, !.term = st,
                                        !.pc = IF total = 0 THEN "emptyStore" ELSE "poll"])
        ELSE /\ Goto(r, [runs[r] EXCEPT !.work = work, !.total = total,
                                        !.pc = "except", !.erred = TRUE])
             /\ UNCHANGED stores
  /\ UNCHANGED <<catVars, h, fs, crashes, faults>>

\* indexer.py 132-137 / 302-306: nothing to do:
\* update_indexing_status("completed", 0, 0, start_time, time.time()), then
\* update_index_status(index_id, 'completed', datetime.now()).
RunEmptyStore(r) ==
  /\ At(r, "emptyStore")
  /\ RunWrite(r, Status("completed", 0, 0, Now, r), "complCat")
  /\ UNCHANGED <<catVars, h, fs, crashes, faults>>

\* indexer.py 141 / 312 / 330 / 368: the stop flag is polled before each file.
RunPoll(r) ==
  /\ At(r, "poll")
  /\ LET x == [runs[r] EXCEPT !.i = IF runs[r].mode = "full" THEN runs[r].k ELSE @] IN
     IF ~HasAux(St(r))
     THEN Goto(r, [x EXCEPT !.pc = "except", !.erred = TRUE])
     ELSE IF St(r).flag
     THEN Goto(r, [x EXCEPT !.pc = "stopStore", !.obs = x.k])
     ELSE Goto(r, [x EXCEPT !.pc = "process"])
  /\ UNCHANGED <<catVars, stores, h, fs, crashes, faults>>

\* The per-file pipeline (indexer.py 147-188, 318-323, 336-357, 374-398) on
\* the store: "full" a row of a rebuild, "ins" a new row, "del" a deleted
\* file, "upd" a changed file.  A modification time of NULL in the directory
\* is a file whose metadata cannot be read (OSError): index_files stores NULL
\* (165-171); update_index_files reads it inside the try-scope of the write,
\* so the write is skipped (340 / 378, 356-357 / 397-398).
DeleteFile(s, f) ==
  [s EXCEPT !.files = IF s.hasFiles THEN {x \in @ : x.path # f} ELSE @,
            !.fts = IF s.hasFiles /\ s.hasFts THEN @ \ {f} ELSE @]

UpdateFile(s, f, c, m) ==
  IF ~s.hasFiles THEN s
  ELSE LET s1 == [s EXCEPT !.files = {IF x.path = f THEN FileRow(f, c, m) ELSE x : x \in @}] IN
       IF ~s.hasFts THEN s1
       ELSE [s1 EXCEPT !.fts = IF c # 0 THEN @ \cup {f} ELSE @ \ {f}]

Apply(s, item, dir) ==
  LET f == item[2] IN
  CASE item[1] = "full" -> InsertFile(s, f, dir[f].content, dir[f].mtime)
    [] item[1] = "ins" -> IF dir[f].mtime = NULL THEN s
                          ELSE InsertFile(s, f, dir[f].content, dir[f].mtime)
    [] item[1] = "del" -> DeleteFile(s, f)
    [] OTHER -> IF dir[f].mtime = NULL THEN s
                ELSE UpdateFile(s, f, dir[f].content, dir[f].mtime)

\* The statements of the per-file try-scope raise sqlite3.Error on store s:
\* no table files, a path that is already stored (UNIQUE), no table files_fts.
WriteFails(s, item, dir) ==
  LET f == item[2] IN
  CASE item[1] \in {"full", "ins"} ->
         ~s.hasFiles \/ f \in RowPaths(s.files) \/ (dir[f].content # 0 /\ ~s.hasFts)
    [] OTHER -> ~s.hasFiles \/ ~s.hasFts

\* The per-file step with the error of the write escaping to the outer
\* except clause.
RunProcessAbort(r) ==
  /\ At(r, "process")
  /\ LET x == runs[r]
         s == Apply(St(r), x.work[x.k + 1], fs)
         st == Status("running", x.total, x.k + 1, 0, r)
     IN IF HasAux(s) /\ ~WriteFails(St(r), x.work[x.k + 1], fs)
        THEN /\ PutStore(r, [s EXCEPT !.st = st])
             /\ Goto(r, [x EXCEPT !.k = x.k + 1, !.term = st,
                                  !.wroteAfter = x.wroteAfter \/ x.obs # NULL,
                                  !.pc = IF x.k + 1 < x.total THEN "poll" ELSE "finalPoll"])
        ELSE /\ Goto(r, [x EXCEPT !.pc = "except", !.erred = TRUE])
             /\ UNCHANGED stores
  /\ UNCHANGED <<catVars, h, fs, crashes, faults>>

\* indexer.py 147-197 (and 318-326, 336-364, 374-405): process one file, then
\* update_indexing_status("running", total_files, processed, start_time, 0),
\* which commits the file's rows with the status.
RunProcess(r) ==
  /\ At(r, "process")
  /\ LET x == runs[r]
         s == Apply(St(r), x.work[x.k + 1], fs)
         st == Status("running", x.total, x.k + 1, 0, r)
     IN IF HasAux(s)
        THEN /\ PutStore(r, [s EXCEPT !.st = st])
             /\ Goto(r, [x EXCEPT !.k = x.k + 1, !.term = st,
                                  !.wroteAfter = x.wroteAfter \/ x.obs # NULL,
                                  !.pc = IF x.k + 1 < x.total THEN "poll" ELSE "finalPoll"])
        ELSE /\ Goto(r, [x EXCEPT !.pc = "except", !.erred = TRUE])
             /\ UNCHANGED stores
  /\ UNCHANGED <<catVars, h, fs, crashes, faults>>

\* indexer.py 143 / 314 / 332 / 370:
\* update_indexing_status("stopped", total_files, i, start_time, time.time()).
RunStopStore(r) ==
  /\ At(r, "stopStore")
  /\ RunWrite(r, Status("stopped", runs[r].total, Counter(runs[r]), Now, r), "stopCat")
  /\ UNCHANGED <<catVars, h, fs, crashes, faults>>

\* indexer.py 144-145: update_index_status(index_id, 'stopped'); break
\* (update_index_files, 315-316: return).
RunStopCat(r) ==
  /\ At(r, "stopCat")
  /\ RunCatalog(r, "stopped", NULL, IF runs[r].mode = "full" THEN "finalPoll" ELSE "done")
  /\ UNCHANGED <<nextId, clock, stores, h, fs, crashes, faults>>

\* indexer.py 199-201 / 407-409: the final commit, then the flag is read again.
RunFinalPoll(r) ==
  /\ At(r, "finalPoll")
  /\ IF ~HasAux(St(r))
     THEN Goto(r, [runs[r] EXCEPT !.pc = "except", !.erred = TRUE])
     ELSE Goto(r, [runs[r] EXCEPT !.pc = IF St(r).flag THEN "stop2Store" ELSE "complStore"])
  /\ UNCHANGED <<catVars, stores, h, fs, crashes, faults>>

\* indexer.py 203 / 411:
\* update_indexing_status("completed", total_files, total_files, ..., time.time()).
RunComplStore(r) ==
  /\ At(r, "complStore")
  /\ RunWrite(r, Status("completed", runs[r].total, runs[r].total, Now, r), "complCat")
  /\ UNCHANGED <<catVars, h, fs, crashes, faults>>

\* indexer.py 136 / 204 / 305 / 412:
\* update_index_status(index_id, 'completed', datetime.now()).
RunComplCat(r) ==
  /\ At(r, "complCat")
  /\ RunCatalog(r, "completed", r, "done")
  /\ UNCHANGED <<nextId, clock, stores, h, fs, crashes, faults>>

\* indexer.py 207 / 415:
\* update_indexing_status("stopped", total_files, i, start_time, time.time()).
RunStop2Store(r) ==
  /\ At(r, "stop2Store")
  /\ RunWrite(r, Status("stopped", runs[r].total, Counter(runs[r]), Now, r), "stop2Cat")
  /\ UNCHANGED <<catVars, h, fs, crashes, faults>>

\* indexer.py 208 / 416: update_index_status(index_id, 'stopped').
RunStop2Cat(r) ==
  /\ At(r, "stop2Cat")
  /\ RunCatalog(r, "stopped", NULL, "done")
  /\ UNCHANGED <<nextId, clock, stores, h, fs, crashes, faults>>

\* The except clause can run: its arguments are bound and conn is a
\* connection.  index_files binds total_files at line 127 and i at line 140;
\* update_index_files binds total_files and processed_count at 253-254.
ExceptRuns(x) ==
  /\ x.conn
  /\ x.mode = "full" => x.total # NULL /\ x.i # NULL

\* indexer.py 210-212 / 418-420:
\* update_indexing_status("failed", total_files, i, start_time, time.time()).
\* An exception raised here (NameError for an unbound argument, AttributeError
\* for conn = None, sqlite3.Error) ends the thread.
RunExcept(r) ==
  /\ At(r, "except")
  /\ LET x == runs[r]
         st == Status("failed", x.total, Counter(x), Now, r)
     IN IF ExceptRuns(x) /\ HasAux(St(r))
        THEN /\ PutStore(r, [St(r) EXCEPT !.st = st])
             /\ Goto(r, [x EXCEPT !.pc = "failCat", !.term = st])
        ELSE /\ Goto(r, [x EXCEPT !.pc = "dead"])
             /\ UNCHANGED stores
  /\ UNCHANGED <<catVars, h, fs, crashes, faults>>

\* indexer.py 213 / 421: update_index_status(index_id, 'failed').
RunFailCat(r) ==
  /\ At(r, "failCat")
  /\ RunCatalog(r, "failed", NULL, "done")
  /\ UNCHANGED <<nextId, clock, stores, h, fs, crashes, faults>>

\* A storage operation of the run raises sqlite3.Error (the file cannot be
\* opened, the database is locked or damaged): at the connection, at the
\* re-creation of the tables, at a poll of the stop flag.
FaultPoints == {"connect", "drop", "create", "poll", "finalPoll"}

RunFault(r) ==
  /\ runs[r].pc \in FaultPoints
  /\ faults < MaxFaults
  /\ faults' = faults + 1
  /\ Goto(r, [runs[r] EXCEPT !.pc = "except", !.erred = TRUE,
                             !.i = IF runs[r].pc = "poll" /\ runs[r].mode = "full"
                                   THEN runs[r].k ELSE @])
  /\ UNCHANGED <<catVars, stores, h, fs, crashes>>

\* update_index_files 261-265: no table files: update_index_status(index_id,
\* 'failed') and return.
RunCheckTable(r) ==
  /\ At(r, "checkTable")
  /\ IF St(r).hasFiles
     THEN /\ Goto(r, [runs[r] EXCEPT !.pc = "diff"])
          /\ UNCHANGED indexes
     ELSE RunCatalog(r, "failed", NULL, "done")
  /\ UNCHANGED <<nextId, clock, stores, h, fs, crashes, faults>>

\* update_index_files 267-297: the buckets of the diff.
NewFilesAll(s, dir) == Scan(dir)
NewFiles(s, dir) == Scan(dir) \ RowPaths(s.files)
DeletedFiles(s, dir) == RowPaths(s.files) \ Scan(dir)
UpdatedFilesNoTolerance(s, dir) ==
  {f \in Scan(dir) \cap RowPaths(s.files) :
     /\ dir[f].mtime # NULL
     /\ \E x \in s.files : x.path = f /\ (x.mdate = NULL \/ Abs(dir[f].mtime - x.mdate) > 0)}
UpdatedFiles(s, dir) ==
  {f \in Scan(dir) \cap RowPaths(s.files) :
     /\ dir[f].mtime # NULL    \* os.path.getmtime raises OSError: skipped (296-297)
     /\ \E x \in s.files : x.path = f /\ (x.mdate = NULL \/ Abs(dir[f].mtime - x.mdate) > 1)}

Tagged(op, seq) == [n \in 1..Len(seq) |-> <<op, seq[n]>>]

UpdateWorkNewFirst(s, dir) ==
  Tagged("ins", Asc(NewFiles(s, dir), 1)) \o Tagged("del", Asc(DeletedFiles(s, dir), 1))
    \o Tagged("upd", Asc(UpdatedFiles(s, dir), 1))

\* update_index_files 310-405: the deleted files, then the new, then the updated.
UpdateWork(s, dir) ==
  Tagged("del", Asc(DeletedFiles(s, dir), 1)) \o Tagged("ins", Asc(NewFiles(s, dir), 1))
    \o Tagged("upd", Asc(UpdatedFiles(s, dir), 1))

\* update_index_files 267-308: read the rows, scan, diff, and
\* update_indexing_status("started", total_files, 0, start_time, 0).
RunDiff(r) ==
  /\ At(r, "diff")
  /\ LET work == UpdateWork(St(r), fs)
         total == Len(work)
         st == Status("started", total, 0, 0, r)
     IN IF ~St(r).hasFiles
        THEN /\ Goto(r, [runs[r] EXCEPT !.pc = "except", !.erred = TRUE])
             /\ UNCHANGED stores
        ELSE IF total = 0
        THEN /\ Goto(r, [runs[r] EXCEPT !.pc = "emptyStore"])
             /\ UNCHANGED stores
        ELSE IF HasAux(St(r))
        THEN /\ PutStore(r, [St(r) EXCEPT !.st = st])
             /\ Goto(r, [runs[r] EXCEPT !.work = work, !.total = total, !.term = st, !.pc = "poll"])
        ELSE /\ Goto(r, [runs[r] EXCEPT !.work = work, !.total = total,
                                        !.pc = "except", !.erred = TRUE])
             /\ UNCHANGED stores
  /\ UNCHANGED <<catVars, h, fs, crashes, faults>>

\* ------------------------------------------------- the handlers (main.py) ---
\* The next thread to start.
Started == {r \in Runs : runs[r].pc # "idle"}
NextRun == Cardinality(Started) + 1

StartRun(mode, id, path) ==
  [NoRun EXCEPT !.pc = "setRunning", !.mode = mode, !.id = id, !.path = path,
                !.total = IF mode = "full" THEN NULL ELSE 0]

\* set_indexing_stop_requested(conn, db_path, requested).
SetStopToggle(s, v) == [s EXCEPT !.flag = ~@]
SetStopRequested(s, v) == [s EXCEPT !.flag = v]

\* A trigger handler with a per-index run guard: refused while a run of the
\* index is in flight.
TriggerBeginGuarded(id) ==
  /\ HandlerFree
  /\ NextRun \in Runs
  /\ \A r \in Runs : ~(Active(runs[r]) /\ runs[r].id = id)
  /\ indexes[id] # NoRow
  /\ HasAux(stores[indexes[id].db_path])
  /\ stores' = [stores EXCEPT ![indexes[id].db_path] = SetStopRequested(@, FALSE)]
  /\ h' = [Call("trigger", "setRunning") EXCEPT !.id = id, !.path = indexes[id].db_path]
  /\ UNCHANGED <<catVars, runVars>>

\* trigger_index_for_id 326-341: read the row, open the store,
\* set_indexing_stop_requested(conn, db_path, False).  (A handler that has
\* returned or raised leaves h = Idle; only the catalog calls and the startup
\* event keep their record.)
TriggerBegin(id) ==
  /\ HandlerFree
  /\ NextRun \in Runs
  /\ IF indexes[id] = NoRow
     THEN /\ h' = Idle
          /\ UNCHANGED stores
     ELSE LET path == indexes[id].db_path
              s == Connect(stores[path])
          IN IF HasAux(s)
             THEN /\ stores' = [stores EXCEPT ![path] = SetStopRequested(s, FALSE)]
                  /\ h' = [Call("trigger", "setRunning") EXCEPT !.id = id, !.path = path]
             ELSE /\ stores' = [stores EXCEPT ![path] = s]
                  /\ h' = Idle
  /\ UNCHANGED <<catVars, runVars>>

\* trigger_index_for_id 342-343: update_index_status(index_id, 'running') and
\* threading.Thread(target=index_files, ...).start().
TriggerSetRunning ==
  /\ h.kind = "trigger" /\ h.pc = "setRunning"
  /\ indexes' = UpdateIndexStatus(indexes, h.id, "running", NULL)
  /\ runs' = [runs EXCEPT ![NextRun] = StartRun("full", h.id, h.path)]
  /\ h' = [h EXCEPT !.pc = "started", !.run = NextRun]
  /\ UNCHANGED <<nextId, clock, stores, fs, crashes, faults>>

\* trigger_index_for_id 344: update_indexing_status(conn, db_path, "started",
\* 0, 0, time.time(), 0), after the thread was started.
TriggerStatusEnded(run) == Status("started", 0, 0, Now, run)
TriggerStatus(run) == Status("started", 0, 0, 0, run)

TriggerStarted ==
  /\ h.kind = "trigger" /\ h.pc = "started"
  /\ IF HasAux(stores[h.path])
     THEN stores' = [stores EXCEPT ![h.path] = [@ EXCEPT !.st = TriggerStatus(h.run)]]
     ELSE UNCHANGED stores
  /\ h' = Idle
  /\ UNCHANGED <<catVars, runVars>>

\* A per-file poll of run x is still ahead.
PollAhead(x) == x.pc = "poll" \/ (x.pc = "process" /\ x.k + 1 < x.total)

\* stop_indexing_for_id 353-361: read the row, open the store,
\* set_indexing_stop_requested(conn, db_path, True).
StopBegin(id) ==
  /\ HandlerFree
  /\ IF indexes[id] = NoRow
     THEN /\ h' = Idle
          /\ UNCHANGED <<stores, runs>>
     ELSE LET path == indexes[id].db_path
              s == Connect(stores[path])
          IN IF HasAux(s)
             THEN /\ stores' = [stores EXCEPT ![path] = SetStopRequested(s, TRUE)]
                  /\ h' = [Call("stop", "stopping") EXCEPT !.id = id, !.path = path]
                  /\ runs' = [r \in Runs |->
                                IF runs[r].id = id /\ PollAhead(runs[r])
                                THEN [runs[r] EXCEPT !.reqMid = TRUE] ELSE runs[r]]
             ELSE /\ stores' = [stores EXCEPT ![path] = s]
                  /\ h' = Idle
                  /\ UNCHANGED runs
  /\ UNCHANGED <<catVars, fs, crashes, faults>>

\* stop_indexing_for_id 362: update_index_status(index_id, 'stopping').
StopStopping ==
  /\ h.kind = "stop" /\ h.pc = "stopping"
  /\ indexes' = UpdateIndexStatus(indexes, h.id, "stopping", NULL)
  /\ h' = Idle
  /\ UNCHANGED <<nextId, clock, stores, runVars>>

\* A caller starts update_index_files(index_id, ...) for a catalog row in a
\* thread of its own (main.py has no route for it).
StartUpdate(id) ==
  /\ HandlerFree
  /\ NextRun \in Runs
  /\ indexes[id] # NoRow
  /\ runs' = [runs EXCEPT ![NextRun] = StartRun("update", id, indexes[id].db_path)]
  /\ h' = Idle
  /\ UNCHANGED <<catVars, stores, fs, crashes, faults>>

\* The directory changes once, between two runs: a file is deleted, or it is
\* rewritten and its modification time moves on by 1..MaxStep seconds.
Quiet == Started # {} /\ \A r \in Runs : ~Active(runs[r])
FullDir == [f \in Files |-> FileIn(f)]

FsRemove(f) ==
  /\ Quiet
  /\ fs = FullDir
  /\ fs' = [fs EXCEPT ![f] = NoFile]
  /\ UNCHANGED <<catVars, stores, h, runs, crashes, faults>>

FsTouch(f) ==
  /\ Quiet
  /\ fs = FullDir
  /\ \E d \in 1..MaxStep : fs' = [fs EXCEPT ![f].mtime = @ + d]
  /\ UNCHANGED <<catVars, stores, h, runs, crashes, faults>>

\* ------------------------------------------------------ crash, startup ---
\* The process dies: its threads and its handler are gone.  On restart the
\* startup event runs first: indexes = get_all_index_configs() (main.py 55).
Crash ==
  /\ crashes < MaxCrashes
  /\ crashes' = crashes + 1
  /\ runs' = [r \in Runs |-> IF Active(runs[r]) THEN [runs[r] EXCEPT !.pc = "killed"]
                             ELSE runs[r]]
  /\ h' = [Call("startup", IF Present(indexes) = {} THEN "done" ELSE "index")
             EXCEPT !.todo = Present(indexes), !.preIndexes = indexes]
  /\ UNCHANGED <<catVars, stores, fs, faults>>

\* ORDER BY name.
NameRank(n) == CASE n = "a" -> 1 [] n = "b" -> 2 [] OTHER -> 3
FirstByName(rows, ids) ==
  CHOOSE i \in ids : \A j \in ids : NameRank(rows[i].name) <= NameRank(rows[j].name)

\* startup_event 56-76 for one index: create_index_tables (an error: continue
\* with the next index); a row read as 'running' becomes 'stopped'; the store's
\* status is reset to "not_started" and its stop flag to False (an error
\* there is logged).
StartupIndex ==
  /\ h.kind = "startup" /\ h.pc = "index"
  /\ LET id == FirstByName(h.preIndexes, h.todo)
         path == h.preIndexes[id].db_path
         c == CreateIndexTables(stores[path])
         rest == h.todo \ {id}
     IN /\ IF c.ok /\ h.preIndexes[id].status = "running"
           THEN indexes' = UpdateIndexStatus(indexes, id, "stopped", NULL)
           ELSE UNCHANGED indexes
        /\ stores' = [stores EXCEPT ![path] =
                        IF c.ok /\ HasAux(c.store)
                        THEN [c.store EXCEPT !.st = Status("not_started", NULL, NULL, NULL, 0),
                                             !.flag = FALSE]
                        ELSE c.store]
        /\ h' = [h EXCEPT !.todo = rest, !.pc = IF rest = {} THEN "done" ELSE "index"]
  /\ UNCHANGED <<nextId, clock, runVars>>

\* ------------------------------------------------ catalog specification ---
\* meta.db after initialize_meta_database: an empty table indexes, and the
\* directory indexes/ empty.
InitCatalog ==
  /\ indexes = [i \in Ids |-> NoRow]
  /\ nextId = 1
  /\ clock = 0
  /\ stores = [p \in Paths |-> NoStore]
  /\ h = Idle
  /\ fs = [f \in Files |-> NoFile]
  /\ runs = [r \in Runs |-> NoRun]
  /\ crashes = 0
  /\ faults = 0

NextCatalog ==
  \/ \E name \in Names : AddInsert(name)
  \/ AddCreateTables
  \/ AddRollback
  \/ \E id \in Ids : DeleteRow(id)
  \/ DeleteArtifact
  \/ Tick
  \/ \E p \in Paths : ArtifactLost(p)

SpecCatalog == InitCatalog /\ [][NextCatalog]_vars

\* ------------------------------------------------ the run specification ---
\* The index "a" was added at second 0 (add_index_config succeeded: its row
\* is 'not_indexed' and its store holds the empty tables); its target
\* directory is empty or holds NFiles files.
FirstPath == DbPath(0, "a")

Init ==
  /\ indexes = [i \in Ids |-> IF i = 1 THEN NewRow("a", FirstPath) ELSE NoRow]
  /\ nextId = 2
  /\ clock = 0
  /\ stores = [p \in Paths |-> IF p = FirstPath THEN CreateIndexTables(NoStore).store
                               ELSE NoStore]
  /\ h = Idle
  /\ fs \in {[f \in Files |-> NoFile], FullDir}
  /\ runs = [r \in Runs |-> NoRun]
  /\ crashes = 0
  /\ faults = 0

RunStep(r) ==
  \/ RunSetRunning(r)
  \/ RunConnect(r)
  \/ RunDrop(r)
  \/ RunCreate(r)
  \/ RunScan(r)
  \/ RunCheckTable(r)
  \/ RunDiff(r)
  \/ RunEmptyStore(r)
  \/ RunPoll(r)
  \/ RunProcess(r)
  \/ RunStopStore(r)
  \/ RunStopCat(r)
  \/ RunFinalPoll(r)
  \/ RunComplStore(r)
  \/ RunComplCat(r)
  \/ RunStop2Store(r)
  \/ RunStop2Cat(r)
  \/ RunExcept(r)
  \/ RunFailCat(r)
  \/ RunFault(r)

Next ==
  \/ \E id \in Ids : TriggerBegin(id)
  \/ TriggerSetRunning
  \/ TriggerStarted
  \/ \E id \in Ids : StopBegin(id)
  \/ StopStopping
  \/ \E id \in Ids : StartUpdate(id)
  \/ \E r \in Runs : RunStep(r)
  \/ \E f \in Files : FsRemove(f)
  \/ \E f \in Files : FsTouch(f)
  \/ Crash
  \/ StartupIndex

Spec == Init /\ [][Next]_vars

\* ----------------------------------------------- the diff specification ---
\* One run, full or incremental, of the index "a" on any store and any
\* directory: the store holds for each file no row or a row with empty or
\* non-empty content and a stored modification time (NULL, the first or the
\* last second), files_fts holding the paths of the rows with content; the
\* directory holds each file or not, with a modification time or with
\* metadata that cannot be read (NULL).
Mtimes == 0..MaxStep
StoredTimes == {NULL, 0, MaxStep}
DirFiles(f) == {NoFile} \cup {[FileIn(f) EXCEPT !.mtime = m] : m \in Mtimes \cup {NULL}}
StoredRows(f) == {{}} \cup {{FileRow(f, c, m)} : c \in {0, 1}, m \in StoredTimes}

StoreWith(rows) ==
  [CreateIndexTables(NoStore).store EXCEPT
     !.files = rows, !.fts = {x.path : x \in {y \in rows : y.content # 0}}]

InitDiff ==
  /\ indexes = [i \in Ids |-> IF i = 1 THEN NewRow("a", FirstPath) ELSE NoRow]
  /\ nextId = 2
  /\ clock = 0
  /\ h = Idle
  /\ crashes = 0
  /\ faults = 0
  /\ \E d \in [Files -> UNION {DirFiles(f) : f \in Files}] :
       /\ \A f \in Files : d[f] \in DirFiles(f)
       /\ fs = d
  /\ \E pick \in [Files -> UNION {StoredRows(f) : f \in Files}], mode \in {"full", "update"} :
       /\ \A f \in Files : pick[f] \in StoredRows(f)
       /\ LET rows == UNION {pick[f] : f \in Files} IN
          /\ stores = [p \in Paths |-> IF p = FirstPath THEN StoreWith(rows) ELSE NoStore]
          /\ runs = [r \in Runs |-> IF r = 1
                                    THEN [StartRun(mode, 1, FirstPath) EXCEPT !.before = rows]
                                    ELSE NoRun]

NextDiff ==
  \/ RunSetRunning(1)
  \/ RunConnect(1)
  \/ RunDrop(1)
  \/ RunCreate(1)
  \/ RunScan(1)
  \/ RunCheckTable(1)
  \/ RunDiff(1)
  \/ RunEmptyStore(1)
  \/ RunPoll(1)
  \/ RunProcess(1)
  \/ RunFinalPoll(1)
  \/ RunComplStore(1)
  \/ RunComplCat(1)

SpecDiff == InitDiff /\ [][NextDiff]_vars

\* ------------------------------------------------- parse_search_query ---
\* A string is a sequence of characters.  The characters of a query: two
\* letters (one lower case, one upper case, so that "oR" is an OR in mixed
\* case), the three whitespace characters of main.py 118, and the characters
\* the parser treats specially.  FW stands for the full-width space U+3000.
MaxLen == 5        \* length of a search query

SP == " "
TAB == "\t"
FW == "fw"
QUOTE == "\""
WhitespaceAscii == {SP, TAB}
Whitespace == {SP, TAB, FW}
Alphabet == {"o", "R", SP, TAB, FW, "|", "-", QUOTE, "("}
Queries == UNION {[1..n -> Alphabet] : n \in 0..MaxLen}

OR == <<"O", "R">>
AND == <<"A", "N", "D">>
NOT == <<"N", "O", "T", SP>>

\* str.upper(), str.strip(), s[a:b], s[i], s.find(pat, from) with Python's
\* 0-based positions (find: -1 when there is none).
Upper(s) == [n \in 1..Len(s) |-> IF s[n] = "o" THEN "O" ELSE s[n]]
Ch(s, i) == s[i + 1]
Slice(s, a, b) == SubSeq(s, a + 1, b)

RECURSIVE LStrip(_, _)
LStrip(s, strip) ==
  IF s # <<>> /\ Head(s) \in strip THEN LStrip(Tail(s), strip) ELSE s

RECURSIVE RStrip(_, _)
RStrip(s, strip) ==
  IF s # <<>> /\ s[Len(s)] \in strip THEN RStrip(SubSeq(s, 1, Len(s) - 1), strip) ELSE s

StripChars(s, strip) == RStrip(LStrip(s, strip), strip)
Strip(s) == StripChars(s, Whitespace)

Find(s, pat, from) ==
  LET hits == {j \in from..(Len(s) - Len(pat)) : Slice(s, j, j + Len(pat)) = pat}
  IN IF hits = {} THEN -1 ELSE CHOOSE j \in hits : \A k \in hits : j <= k

StartsWith(s, pat) == Len(s) >= Len(pat) /\ SubSeq(s, 1, Len(pat)) = pat
EndsWith(s, pat) == Len(s) >= Len(pat) /\ SubSeq(s, Len(s) - Len(pat) + 1, Len(s)) = pat

\* The inner while loops of main.py 165-168 and 176-179: the first position
\* from i on that ends a word (the end of the query, a whitespace character,
\* one of | ( ), or one of the characters in stops).
WordEnd(q, i, stops) ==
  CHOOSE e \in i..Len(q) :
    /\ e = Len(q) \/ Ch(q, e) \in Whitespace \cup {"|", "(", ")"} \cup stops
    /\ \A j \in i..(e - 1) : Ch(q, j) \notin Whitespace \cup {"|", "(", ")"} \cup stops

\* The first while loop of parse_search_query (main.py 120-182) from position
\* i with the tokens read so far.  returns = FALSE: the loop never ends,
\* because an iteration leaves i where it was (the word loop of 176-179 stops
\* at once on a double quote, a hyphen or a parenthesis).
RECURSIVE Tokenize(_, _, _)
Tokenize(q, i, tokens) ==
  LET length == Len(q)
      endStrict == Find(q, <<QUOTE, QUOTE>>, i + 2)
      endPhrase == Find(q, <<QUOTE>>, i + 1)
      strict == Strip(Slice(q, i + 2, endStrict))
      phrase == Strip(Slice(q, i + 1, endPhrase))
      endNot == WordEnd(q, i + 1, {QUOTE})
      notWord == Strip(Slice(q, i + 1, endNot))
      endWord == WordEnd(q, i, {QUOTE, "-"})
      word == Strip(Slice(q, i, endWord))
  IN IF i >= length THEN [returns |-> TRUE, tokens |-> tokens]
     ELSE IF Ch(q, i) \in Whitespace THEN Tokenize(q, i + 1, tokens)
     ELSE IF i + 1 < length /\ Slice(q, i, i + 2) = <<QUOTE, QUOTE>> /\ endStrict # -1
       THEN Tokenize(q, endStrict + 2,
                     IF strict # <<>>
                       THEN Append(tokens, <<QUOTE, QUOTE, QUOTE>> \o strict \o <<QUOTE, QUOTE, QUOTE>>)
                       ELSE tokens)
     ELSE IF Ch(q, i) = QUOTE /\ endPhrase # -1
       THEN Tokenize(q, endPhrase + 1,
                     IF phrase # <<>> THEN Append(tokens, <<QUOTE>> \o phrase \o <<QUOTE>>)
                                      ELSE tokens)
     ELSE IF /\ i + 1 < length
             /\ Upper(Slice(q, i, i + 2)) = OR
             /\ (i = 0 \/ Ch(q, i - 1) \in Whitespace \cup {"("})
             /\ (i + 2 >= length \/ Ch(q, i + 2) \in Whitespace \cup {")"})
       THEN Tokenize(q, i + 2, Append(tokens, OR))
     ELSE IF Ch(q, i) = "|" THEN Tokenize(q, i + 1, Append(tokens, OR))
     ELSE IF Ch(q, i) = "-" /\ (i = 0 \/ Ch(q, i - 1) \in Whitespace \cup {"("})
       THEN Tokenize(q, endNot, IF notWord # <<>> THEN Append(tokens, NOT \o notWord)
                                                   ELSE tokens)
     ELSE IF endWord = i THEN [returns |-> FALSE, tokens |-> tokens]
     ELSE Tokenize(q, endWord, IF word # <<>> /\ Upper(word) # OR THEN Append(tokens, word)
                                                                  ELSE tokens)

FtsPartWildcard(token) == IF Upper(token) = OR THEN OR ELSE token \o <<"*">>

\* The second loop (main.py 194-236): the part of the FTS5 query a token
\* becomes; <<>> stands for a token that adds no part.
FtsPart(token) ==
  IF Upper(token) = OR THEN OR
  ELSE IF StartsWith(Upper(token), NOT)
    THEN (IF Strip(Slice(token, 4, Len(token))) # <<>>
            THEN NOT \o Strip(Slice(token, 4, Len(token))) ELSE <<>>)
  ELSE token

FtsParts(tokens) == SelectSeq([n \in 1..Len(tokens) |-> FtsPart(tokens[n])], LAMBDA p : p # <<>>)

\* ' '.join(parts)
RECURSIVE Join(_)
Join(parts) ==
  IF parts = <<>> THEN <<>>
  ELSE IF Len(parts) = 1 THEN parts[1]
  ELSE parts[1] \o <<SP>> \o Join(Tail(parts))

\* re.sub(r'\s+', ' ', s)
RECURSIVE CollapseWhitespace(_)
CollapseWhitespace(s) ==
  IF s = <<>> THEN <<>>
  ELSE IF Head(s) \in Whitespace
    THEN <<SP>> \o CollapseWhitespace(LStrip(s, Whitespace))
  ELSE <<Head(s)>> \o CollapseWhitespace(Tail(s))

\* parse_search_query (main.py 90-245): whether the call returns, and the
\* FTS5 query it returns.
parse_search_query(query) ==
  IF query = <<>> \/ Strip(query) = <<>> THEN [returns |-> TRUE, fts_query |-> <<>>]
  ELSE LET t == Tokenize(Strip(query), 0, <<>>)
       IN IF ~t.returns THEN [returns |-> FALSE, fts_query |-> <<>>]
          ELSE IF t.tokens = <<>> THEN [returns |-> TRUE, fts_query |-> <<>>]
          ELSE [returns |-> TRUE,
                fts_query |-> Strip(CollapseWhitespace(Join(FtsParts(t.tokens))))]

\* ------------------------------------------------------- search_files ---
\* q.strip().split()
RECURSIVE Split(_)
Split(s) ==
  LET t == LStrip(s, Whitespace)
      stop == CHOOSE k \in 0..Len(t) :
                /\ k = Len(t) \/ Ch(t, k) \in Whitespace
                /\ \A j \in 0..(k - 1) : Ch(t, j) \notin Whitespace
  IN IF t = <<>> THEN <<>>
     ELSE <<Slice(t, 0, stop)>> \o Split(Slice(t, stop, Len(t)))

\* main.py 595-596
search_terms(q) ==
  SelectSeq(Split(Strip(q)), LAMBDA term : Upper(term) \notin {OR, AND} /\ ~StartsWith(term, <<"-">>))
clean_term(term) == StripChars(term, {QUOTE})
UseLikeNever(q) == FALSE
use_like_search(q) ==
  \E n \in 1..Len(search_terms(q)) : Len(clean_term(search_terms(q)[n])) <= 2

\* The text of a stored content: content 0 is the empty text.  The text of a
\* stored path: the directory the files are in.
Text(c) ==
  CASE c = 0 -> <<>>
    [] c = 1 -> <<"o", "o", "o", SP, "R">>
    [] OTHER -> <<"R", "o", "o", "o", "|">>
PathText(f) == <<"/", "R", "R", "R", "/">>

\* text contains pat, upper and lower case taken as equal (LIKE '%pat%', and
\* a phrase against the trigram index).
Contains(text, pat) == Find(Upper(text), Upper(pat), 0) # -1

\* text LIKE pat as SQLite evaluates it: '%' stands for any run of
\* characters, '_' for any one character, upper and lower case are equal.
RECURSIVE Like(_, _)
Like(text, pat) ==
  IF pat = <<>> THEN text = <<>>
  ELSE IF Head(pat) = "%"
    THEN \E k \in 0..Len(text) : Like(SubSeq(text, k + 1, Len(text)), Tail(pat))
  ELSE /\ text # <<>>
       /\ Head(pat) = "_" \/ Upper(<<Head(text)>>) = Upper(<<Head(pat)>>)
       /\ Like(Tail(text), Tail(pat))

\* main.py 603-606: like_params.append(f"%{clean_term}%").
LikeParam(term) == <<"%">> \o clean_term(term) \o <<"%">>

\* The rows the query of main.py 616-624 selects: files.content LIKE ? for
\* every term of search_terms.
LikeRows(s, q) ==
  {x \in s.files : \A n \in 1..Len(search_terms(q)) :
                     Like(Text(x.content), LikeParam(search_terms(q)[n]))}

\* files_fts MATCH fts_query: how FTS5 reads the query string.  A lexeme is an
\* operator (the barewords OR and NOT) or a phrase (any other bareword, or a
\* string in double quotes, where "" stands for one quote character).
BareChars == {"o", "R", "O", "N", "T"}

BareEnd(s, i) ==
  CHOOSE e \in i..Len(s) :
    /\ e = Len(s) \/ Ch(s, e) \notin BareChars
    /\ \A j \in i..(e - 1) : Ch(s, j) \in BareChars

\* The position of the quote that closes the string whose text starts at i;
\* -1: the string is not terminated.
RECURSIVE StringEnd(_, _)
StringEnd(s, i) ==
  IF i >= Len(s) THEN -1
  ELSE IF Ch(s, i) # QUOTE THEN StringEnd(s, i + 1)
  ELSE IF i + 1 < Len(s) /\ Ch(s, i + 1) = QUOTE THEN StringEnd(s, i + 2)
  ELSE i

RECURSIVE Unescape(_)
Unescape(s) ==
  IF s = <<>> THEN <<>>
  ELSE IF Head(s) = QUOTE THEN <<QUOTE>> \o Unescape(Tail(Tail(s)))
  ELSE <<Head(s)>> \o Unescape(Tail(s))

RECURSIVE FtsLex(_, _, _)
FtsLex(s, i, lexemes) ==
  IF i >= Len(s) THEN [ok |-> TRUE, lexemes |-> lexemes]
  ELSE IF Ch(s, i) = SP THEN FtsLex(s, i + 1, lexemes)
  ELSE IF Ch(s, i) = QUOTE
    THEN (IF StringEnd(s, i + 1) = -1 THEN [ok |-> FALSE, lexemes |-> lexemes]
          ELSE FtsLex(s, StringEnd(s, i + 1) + 1,
                      Append(lexemes, [op |-> "", text |-> Unescape(Slice(s, i + 1, StringEnd(s, i + 1)))])))
  ELSE IF Ch(s, i) \in BareChars
    THEN LET word == Slice(s, i, BareEnd(s, i))
         IN FtsLex(s, BareEnd(s, i),
                   Append(lexemes, IF word = OR THEN [op |-> "OR", text |-> <<>>]
                                   ELSE IF word = <<"N", "O", "T">> THEN [op |-> "NOT", text |-> <<>>]
                                   ELSE [op |-> "", text |-> word]))
  ELSE [ok |-> FALSE, lexemes |-> lexemes]

\* The runs of lexemes between the operators op.
RECURSIVE SplitOn(_, _)
SplitOn(lexemes, op) ==
  LET hits == {n \in 1..Len(lexemes) : lexemes[n].op = op}
      first == CHOOSE n \in hits : \A k \in hits : n <= k
  IN IF hits = {} THEN <<lexemes>>
     ELSE <<SubSeq(lexemes, 1, first - 1)>> \o SplitOn(SubSeq(lexemes, first + 1, Len(lexemes)), op)

\* OR binds loosest, then NOT, then the implicit AND of adjacent phrases;
\* every operand must be there.
FtsSyntaxOk(lexemes) ==
  \A n \in 1..Len(SplitOn(lexemes, "OR")) :
    \A k \in 1..Len(SplitOn(SplitOn(lexemes, "OR")[n], "NOT")) :
      SplitOn(SplitOn(lexemes, "OR")[n], "NOT")[k] # <<>>

\* The trigram tokenizer: a phrase of fewer than 3 characters has no token
\* and is left out of an AND; an AND with nothing left matches no row.  A
\* phrase matches a row in any column of files_fts (path, content).
PhraseMatches(text, x) == Contains(PathText(x.path), text) \/ Contains(Text(x.content), text)
GroupMatches(group, x) ==
  /\ \E n \in 1..Len(group) : Len(group[n].text) >= 3
  /\ \A n \in 1..Len(group) : Len(group[n].text) >= 3 => PhraseMatches(group[n].text, x)
ChainMatches(chain, x) ==
  /\ GroupMatches(chain[1], x)
  /\ \A k \in 2..Len(chain) : ~GroupMatches(chain[k], x)
FtsMatches(lexemes, x) ==
  \E n \in 1..Len(SplitOn(lexemes, "OR")) : ChainMatches(SplitOn(SplitOn(lexemes, "OR")[n], "NOT"), x)

\* The rows the query of main.py 644-654 selects: files_fts MATCH ?, inner
\* join files on path.  A query FTS5 cannot read raises OperationalError.
FtsRows(s, fts_query) ==
  LET l == FtsLex(fts_query, 0, <<>>)
  IN IF ~l.ok \/ ~FtsSyntaxOk(l.lexemes) THEN [ok |-> FALSE, rows |-> {}]
     ELSE [ok |-> TRUE,
           rows |-> {x \in s.files : x.path \in s.fts /\ FtsMatches(l.lexemes, x)}]

\* A call of search_files (main.py 415-760) without filters.  q: the query;
\* id: index_id (NULL: none selected); fts_query: what parse_search_query
\* returned; results: the paths of the results returned.  pc = "parse": the
\* handler is in a call of parse_search_query that does not return.
\* Not program state: sql, the query issued against the store ("none", "like"
\* or "fts").
SearchCall(q, id) ==
  [kind |-> "search", pc |-> "done", q |-> q, id |-> id, fts_query |-> <<>>,
   sql |-> "none", results |-> {}]

SearchFiles(q, id) ==
  LET row == indexes[id]
      s == Connect(stores[row.db_path])
      p == parse_search_query(q)
      fts == FtsRows(s, p.fts_query)
  IN
  /\ HandlerFree
  /\ UNCHANGED <<catVars, runVars>>
  /\ IF id = NULL \/ row = NoRow \/ q = <<>>
       THEN \* 488-521: no index selected, index not found; 523: no query
            h' = SearchCall(q, id) /\ UNCHANGED stores
     ELSE /\ stores' = [stores EXCEPT ![row.db_path] = s]
          /\ h' = IF ~p.returns THEN [SearchCall(q, id) EXCEPT !.pc = "parse"]
                  ELSE IF p.fts_query = <<>>
                    THEN \* 529-561
                         SearchCall(q, id)
                  ELSE IF use_like_search(q)
                    THEN \* 598-624; 681-: no such table
                         [SearchCall(q, id) EXCEPT
                            !.fts_query = p.fts_query, !.sql = "like",
                            !.results = IF s.hasFiles THEN RowPaths(LikeRows(s, q)) ELSE {}]
                  ELSE \* 625-654; 681-: no such table, syntax error
                       [SearchCall(q, id) EXCEPT
                          !.fts_query = p.fts_query, !.sql = "fts",
                          !.results = IF s.hasFiles /\ s.hasFts /\ fts.ok
                                        THEN RowPaths(fts.rows) ELSE {}]

\* Searches of one index: its store holds a row for every file of the
\* directory (each with a text, and its row in files_fts), or has not been
\* created yet.
SearchRows == {FileRow(f, 1 + (f % 2), 0) : f \in Files}
SearchStores == {NoStore, StoreWith(SearchRows)}

InitSearch ==
  /\ indexes = [i \in Ids |-> IF i = 1 THEN NewRow("a", FirstPath) ELSE NoRow]
  /\ nextId = 2
  /\ clock = 0
  /\ h = Idle
  /\ fs = [f \in Files |-> FileIn(f)]
  /\ runs = [r \in Runs |-> NoRun]
  /\ crashes = 0
  /\ faults = 0
  /\ \E s \in SearchStores : stores = [p \in Paths |-> IF p = FirstPath THEN s ELSE NoStore]

\* One search in a behaviour: a search reads the catalog and the store and
\* writes neither (but for the store file it creates when there is none), so
\* what it returns does not depend on the searches before it.
NextSearch == h = Idle /\ \E q \in Queries, id \in {NULL, 1} : SearchFiles(q, id)

SpecSearch == InitSearch /\ [][NextSearch]_vars

\* Searches with the characters LIKE gives a meaning to.
LikeAlphabet == {"o", "R", "_", "%", SP}
LikeQueries == UNION {[1..n -> LikeAlphabet] : n \in 0..MaxLen}

NextLike == h = Idle /\ \E q \in LikeQueries, id \in {NULL, 1} : SearchFiles(q, id)

SpecLike == InitSearch /\ [][NextLike]_vars

\* ============================================================== claims ===
RowNames(rows) == {rows[i].name : i \in {j \in Ids : rows[j] # NoRow}}
RowPathsOf(rows) == {rows[i].db_path : i \in {j \in Ids : rows[j] # NoRow}}

\* C1 (as claimed): a run during which a stop was requested while one of its
\* per-file polls was still ahead, and which returned without a run-level
\* error, wrote 'stopped' as its last store status, with processed_files <
\* total_files, and wrote no file after the poll that saw the flag.
C1_Cancellation ==
  \A r \in Runs :
    (runs[r].pc = "done" /\ ~runs[r].erred /\ runs[r].reqMid)
      => /\ runs[r].term.status = "stopped"
         /\ runs[r].term.processed < runs[r].term.total
         /\ ~runs[r].wroteAfter

\* C2 (as claimed): when no handler is executing and no run is in flight, and
\* a run of the index has returned (no run hit a run-level error, the process
\* never crashed), the catalog status and the store status of the index are
\* the same terminal state.
RunsAtRest ==
  /\ HandlerFree
  /\ crashes = 0
  /\ \A r \in Runs : ~Active(runs[r]) /\ ~runs[r].erred
  /\ \E r \in Runs : runs[r].pc = "done"

C2_StatusConvergence ==
  RunsAtRest =>
    \A r \in Runs :
      runs[r].pc = "done" =>
        /\ indexes[runs[r].id].status \in Terminal
        /\ indexes[runs[r].id].status = stores[runs[r].path].st.status

\* C3 (as claimed): from one write of indexing_status to the next write of
\* the same run (the trigger handler's write included), processed_files does
\* not decrease.
C3_MonotonicProgress ==
  [][\A p \in Paths :
       (stores'[p].st.run = stores[p].st.run /\ stores[p].st.run # 0)
         => stores'[p].st.processed >= stores[p].st.processed]_vars

\* C4 (as claimed, in the form a finite run refutes): a run thread that has
\* ended (it returned, or an exception ended it) has written a terminal state
\* as its last status of the store and as its last status of the catalog.
C4_RunTermination ==
  \A r \in Runs :
    runs[r].pc \in {"done", "dead"}
      => runs[r].term.status \in Terminal /\ runs[r].termCat \in Terminal

\* C5 (as claimed): a run that an error escaping the per-file scopes ended
\* wrote 'failed' to the store and to the catalog, with processed_files the
\* number of files it had processed.
C5_RunLevelFailure ==
  \A r \in Runs :
    (runs[r].erred /\ runs[r].pc \in {"done", "dead"})
      => /\ runs[r].term.status = "failed"
         /\ runs[r].termCat = "failed"
         /\ runs[r].term.processed = runs[r].k

C7_UniqueStorage ==
  /\ (h.kind = "add" /\ h.pc = "done" /\ ~h.initFailed /\ h.name \notin RowNames(h.preIndexes))
       => h.ret \in Ids /\ h.preIndexes[h.ret] = NoRow /\ indexes[h.ret].name = h.name
  /\ \A i, j \in Ids :
       (i # j /\ indexes[i] # NoRow /\ indexes[j] # NoRow)
         => indexes[i].db_path # indexes[j].db_path

\* C8: a step of add_index_config for a name some catalog row has returns -1,
\* changes no row, adds no row, and initializes no store.
C8_DuplicateName ==
  [][(h' # h /\ h'.kind = "add" /\ h'.name \in RowNames(indexes) /\ h.pc = "done")
       => /\ h'.pc = "done" /\ h'.ret = -1 /\ ~h'.raised
          /\ indexes' = indexes /\ nextId' = nextId /\ stores' = stores]_vars

C8_Witness ==
  /\ h.kind = "add" /\ h.pc = "done" /\ h.ret = -1
  /\ h.name \in RowNames(indexes)
  /\ Cardinality({i \in Ids : indexes[i] # NoRow}) >= 2

\* C9: delete_index_config removes the row before the artifact; when it
\* returns True the id was in the catalog and now neither its row nor its
\* artifact exists (also when the artifact was missing already), every other
\* row and store being as before; when it returns False the id was not in the
\* catalog and nothing changed.
DeleteReturns == h' # h /\ h'.kind = "delete" /\ h'.pc = "done"

C9_DeleteIndex ==
  /\ [](h.kind = "delete" /\ h.pc = "remove"
          => indexes[h.id] = NoRow /\ stores = h.preStores)
  /\ [][DeleteReturns =>
          IF h'.ret = 1
          THEN /\ h'.preIndexes[h'.id] # NoRow
               /\ indexes' = [h'.preIndexes EXCEPT ![h'.id] = NoRow]
               /\ ~stores'[h'.path].file
               /\ \A p \in Paths \ {h'.path} : stores'[p] = h'.preStores[p]
          ELSE /\ h'.ret = 0
               /\ h'.preIndexes[h'.id] = NoRow
               /\ indexes' = indexes /\ stores' = stores]_vars

C9_Witness ==
  /\ h.kind = "delete" /\ h.pc = "done" /\ h.ret = 1
  /\ ~h.preStores[h.path].file
  /\ \E i \in Ids : indexes[i] # NoRow

\* C10 (as claimed): when the startup event has completed, no catalog row has
\* the status 'running'.
C10_StartupReconciliation ==
  (h.kind = "startup" /\ h.pc = "done")
    => \A i \in Ids : indexes[i].status # "running"

\* C11 (as claimed): whenever the indexing_status row of a store changes, the
\* change is a step of not_started -> started -> running -> completed |
\* stopped | failed: a first 'started' (from no row, not_started or a
\* terminal state of an earlier run), started -> running, running -> running
\* (progress), running -> terminal; the reset of the startup event aside.
\* So 'started' is written once per run, none follows 'running' or a terminal
\* state of the same run, and no run goes from started to a terminal state.
StatusStep(a, b) ==
  \/ b.status \in {"not_started", "none"}
  \/ a.status \in {"none", "not_started"} /\ b.status = "started"
  \/ a.status \in Terminal /\ b.status = "started" /\ b.run # a.run
  \/ a.status = "started" /\ b.status = "running" /\ b.run = a.run
  \/ a.status = "running" /\ b.status = "running" /\ b.run = a.run
  \/ a.status = "running" /\ b.status \in Terminal /\ b.run = a.run

C11_StatusStateMachine ==
  [][\A p \in Paths :
       stores'[p].st # stores[p].st => StatusStep(stores[p].st, stores'[p].st)]_vars

\* C12: when a run, full or incremental, has ended 'completed', every path of
\* files_fts is the path of a row of files, and no row of files with empty
\* content has a row in files_fts.
Mirror(s) ==
  /\ s.fts \subseteq RowPaths(s.files)
  /\ \A x \in s.files : x.content = 0 => x.path \notin s.fts

Items(work, tag) == {work[n][2] : n \in {m \in 1..Len(work) : work[m][1] = tag}}

DiffStep(r) == runs[r].pc = "diff" /\ runs'[r].pc # "diff"

C13_DiffCompleteness ==
  [][\A r \in Runs :
       DiffStep(r) =>
         LET cur == Scan(fs)
             ex == RowPaths(St(r).files)
             new == NewFiles(St(r), fs)
             del == DeletedFiles(St(r), fs)
             upd == UpdatedFiles(St(r), fs)
             unch == (cur \cap ex) \ upd
             n == Cardinality(new) + Cardinality(upd) + Cardinality(del)
         IN /\ new \cup upd \cup unch = cur
            /\ del \cup upd \cup unch = ex
            /\ new \cap upd = {} /\ new \cap unch = {} /\ new \cap del = {}
            /\ upd \cap unch = {} /\ upd \cap del = {} /\ unch \cap del = {}
            /\ runs'[r].pc = (IF n = 0 THEN "emptyStore" ELSE "poll")
            /\ n > 0 => /\ runs'[r].total = n /\ Len(runs'[r].work) = n
                        /\ Items(runs'[r].work, "ins") = new
                        /\ Items(runs'[r].work, "del") = del
                        /\ Items(runs'[r].work, "upd") = upd]_vars

\* The diff of an incremental run has filled two buckets.
C13_Witness ==
  /\ runs[1].mode = "update" /\ runs[1].pc = "poll" /\ runs[1].k = 0
  /\ Items(runs[1].work, "del") # {}
  /\ Items(runs[1].work, "upd") # {}

\* C14 (as claimed): at the diff of an incremental run, a path in both the
\* scan and the store is in 'updated' exactly when its on-disk modification
\* time differs from the stored one by more than 1 second; a path whose
\* metadata cannot be read is not in 'updated'; the diff raises no error.
StoredTime(s, f) == (CHOOSE x \in s.files : x.path = f).mdate

DiffersByMoreThan1(s, dir, f) ==
  /\ dir[f].mtime # NULL
  /\ StoredTime(s, f) # NULL
  /\ Abs(dir[f].mtime - StoredTime(s, f)) > 1

C14_UpdatedBucketAsClaimed ==
  [][\A r \in Runs :
       DiffStep(r) =>
         /\ runs'[r].pc # "except"
         /\ \A f \in Scan(fs) \cap RowPaths(St(r).files) :
              f \in Items(runs'[r].work, "upd") <=> DiffersByMoreThan1(St(r), fs, f)]_vars

\* C14 (amended): ... exactly when its metadata can be read and either the
\* stored modification time is null or the two differ by more than 1 second.
C14_UpdatedBucket ==
  [][\A r \in Runs :
       DiffStep(r) =>
         /\ runs'[r].pc # "except"
         /\ \A f \in Scan(fs) \cap RowPaths(St(r).files) :
              /\ fs[f].mtime = NULL => f \notin Items(runs'[r].work, "upd")
              /\ f \in Items(runs'[r].work, "upd")
                   <=> /\ fs[f].mtime # NULL
                       /\ \/ StoredTime(St(r), f) = NULL
                          \/ DiffersByMoreThan1(St(r), fs, f)]_vars

\* The diff has put a row with a null stored time in 'updated' and left out a
\* row whose file is exactly 1 second off.
C14_Witness ==
  /\ runs[1].mode = "update" /\ runs[1].pc = "poll" /\ runs[1].k = 0
  /\ \E x, y \in runs[1].before :
       /\ x.mdate = NULL /\ x.path \in Items(runs[1].work, "upd")
       /\ y.mdate # NULL /\ fs[y.path].present /\ fs[y.path].mtime # NULL
       /\ Abs(fs[y.path].mtime - y.mdate) = 1
       /\ y.path \notin Items(runs[1].work, "upd")

\* C15: a full rebuild that has ended 'completed' leaves in files exactly one
\* row per scanned file, with the file's content and modification time,
\* whatever rows it found; so a rebuild that starts on the rows a rebuild of
\* the same directory left ends with the identical rows.
Rebuilt(dir) == {FileRow(f, dir[f].content, dir[f].mtime) : f \in Scan(dir)}

C15_RebuildIdempotence ==
  \A r \in Runs :
    (runs[r].mode = "full" /\ runs[r].pc = "done" /\ runs[r].term.status = "completed")
      => /\ stores[runs[r].path].files = Rebuilt(fs)
         /\ runs[r].before = Rebuilt(fs) => stores[runs[r].path].files = runs[r].before

\* A rebuild has completed on the rows an earlier rebuild of the directory left.
C15_Witness ==
  /\ runs[1].mode = "full" /\ runs[1].pc = "done" /\ runs[1].term.status = "completed"
  /\ runs[1].before = Rebuilt(fs)
  /\ Cardinality(runs[1].before) = NFiles

\* ---------------------------------------------------------------- C16 ---
\* A search that called parse_search_query, and the call returned.
Translated == h.kind = "search" /\ h.pc = "done" /\ h.id # NULL /\ h.q # <<>>

Letters == {"o", "R"}
IsWord(t) == t # <<>> /\ \A n \in 1..Len(t) : t[n] \in Letters
Quoted(t, k) ==
  /\ Len(t) > 2 * k
  /\ \A n \in 1..k : t[n] = QUOTE /\ t[Len(t) + 1 - n] = QUOTE
Inner(t, k) == SubSeq(t, k + 1, Len(t) - k)

\* What the claim says a term of the query becomes.
ClaimedPart(t) ==
  IF Upper(t) = OR \/ t = <<"|">> THEN OR
  ELSE IF Head(t) = "-" THEN NOT \o Tail(t)
  ELSE IF Quoted(t, 2) THEN <<QUOTE, QUOTE, QUOTE>> \o Inner(t, 2) \o <<QUOTE, QUOTE, QUOTE>>
  ELSE t

\* The terms the claim speaks of: a plain word, a standalone OR in any case,
\* '|', '-word', a phrase "word" and a phrase ""word"".
ClaimedTerm(t) ==
  \/ IsWord(t)
  \/ t = <<"|">>
  \/ Head(t) = "-" /\ IsWord(Tail(t))
  \/ Quoted(t, 1) /\ IsWord(Inner(t, 1))
  \/ Quoted(t, 2) /\ IsWord(Inner(t, 2))

TermsOnly(q) == \A n \in 1..Len(Split(q)) : ClaimedTerm(Split(q)[n])
NoQuote(t) == \A n \in 1..Len(t) : t[n] # QUOTE

\* C16: whenever parse_search_query returns: a query made of plain words,
\* standalone ORs (any case), '|', '-word' terms and quoted words, separated by
\* whitespace, is translated term by term and joined by single spaces (a word
\* unchanged, without wildcard; OR and '|' to OR; '-word' to 'NOT word' in
\* place; "word" unchanged; ""word"" to one triple-quoted token); a query that
\* is one "..." or ""..."" phrase becomes one quoted token holding the phrase
\* with its whitespace runs collapsed; a query of whitespace only, or that is
\* one phrase with nothing but whitespace in it, becomes the empty string.
C16_QueryTranslation ==
  Translated =>
    LET q == Strip(h.q) IN
    /\ TermsOnly(q) =>
         h.fts_query = Join([n \in 1..Len(Split(q)) |-> ClaimedPart(Split(q)[n])])
    /\ \A k \in {1, 2} :
         Quoted(q, k) /\ NoQuote(Inner(q, k)) /\ Strip(Inner(q, k)) # <<>> =>
           h.fts_query = LET quotes == IF k = 1 THEN <<QUOTE>> ELSE <<QUOTE, QUOTE, QUOTE>>
                         IN quotes \o CollapseWhitespace(Strip(Inner(q, k))) \o quotes
    /\ \A k \in {1, 2} :
         (/\ Len(q) >= 2 * k
          /\ \A n \in 1..k : q[n] = QUOTE /\ q[Len(q) + 1 - n] = QUOTE
          /\ \A n \in 1..Len(Inner(q, k)) : Inner(q, k)[n] \in Whitespace) => h.fts_query = <<>>

\* A query of a plain word and an excluded word, with two whitespace
\* characters between them, was translated.
C16_Witness ==
  /\ Translated
  /\ h.q = <<"o", FW, TAB, "-", "R">>
  /\ h.fts_query = <<"o", SP>> \o NOT \o <<"R">>

\* ---------------------------------------------------------------- C17 ---
\* C17: a search whose query is made of ordinary spaces, tabs and full-width
\* spaces only (or is empty) gets the empty string from parse_search_query,
\* which returns; and every search whose translated query is empty has issued
\* no query against the store, neither LIKE nor MATCH, and returns no results.
C17_EmptyQuerySentinel ==
  h.kind = "search" =>
    /\ (\A n \in 1..Len(h.q) : h.q[n] \in {SP, TAB, FW}) => h.pc = "done" /\ h.fts_query = <<>>
    /\ h.pc = "done" /\ h.fts_query = <<>> => h.sql = "none" /\ h.results = {}

\* A query of a full-width space, a tab and a space was searched in an index
\* whose store has rows.
C17_Witness ==
  /\ h.kind = "search"
  /\ h.pc = "done"
  /\ h.id = 1
  /\ h.q = <<FW, TAB, SP>>
  /\ h.sql = "none"
  /\ h.results = {}
  /\ stores[FirstPath].files # {}

\* ---------------------------------------------------------------- C18 ---
\* The query has a raw search term of at most 2 characters once its quote
\* characters are stripped.
HasShortTerm(q) ==
  \E n \in 1..Len(search_terms(q)) : Len(StripChars(search_terms(q)[n], {QUOTE})) <= 2

\* C18: a search whose query has a raw search term of at most 2 characters
\* (quotes stripped) never issues the full-text query, and issues the LIKE
\* query whenever it issues one at all, that is whenever an index is selected
\* and the translated query is not empty; with one term or several.
C18_FallbackTrigger ==
  h.kind = "search" /\ HasShortTerm(h.q) =>
    /\ h.sql # "fts"
    /\ (/\ h.id # NULL
        /\ parse_search_query(h.q).returns
        /\ parse_search_query(h.q).fts_query # <<>>) => h.pc = "done" /\ h.sql = "like"

\* A query of a long and a short term ran on the LIKE path and found rows.
C18_Witness ==
  /\ h.kind = "search"
  /\ h.q = <<"o", "o", "o", SP, "R">>
  /\ h.sql = "like"
  /\ h.results # {}

\* ---------------------------------------------------------------- C19 ---
\* The search terms as the claim counts them: the whitespace-separated terms
\* of the query but for OR (any case), '|' and the excluded '-word' terms.
ClaimedSearchTerms(q) ==
  SelectSeq(Split(Strip(q)),
            LAMBDA term : Upper(term) # OR /\ term # <<"|">> /\ Head(term) # "-")

\* C19 (as claimed): a search of a selected index whose translated query is
\* not empty and whose search terms (there is one at least) all have at least
\* 3 characters issues the full-text query, and its results are rows of files_fts joined to files by
\* path.
C19_FullTextPath ==
  (/\ h.kind = "search"
   /\ h.id # NULL
   /\ parse_search_query(h.q).returns
   /\ parse_search_query(h.q).fts_query # <<>>
   /\ ClaimedSearchTerms(h.q) # <<>>
   /\ \A n \in 1..Len(ClaimedSearchTerms(h.q)) :
        Len(StripChars(ClaimedSearchTerms(h.q)[n], {QUOTE})) >= 3)
  => /\ h.sql = "fts"
     /\ h.results \subseteq stores[FirstPath].fts \cap RowPaths(stores[FirstPath].files)

\* ---------------------------------------------------------------- C20 ---
\* A cap that the stores of NFiles rows can tell from no cap at all.
ResultCap == NFiles - 1

\* C20 (as claimed): a search returns at most ResultCap results, on the LIKE
\* path and on the full-text path.
C20_ResultCap == h.kind = "search" => Cardinality(h.results) <= ResultCap

\* -------------------------------------------------------------- locks ---
\* database.py 13-14: one meta_db_lock (threading.Lock) for the catalog and
\* one index_db_lock (threading.RLock) for the stores of all indexes.  Here a
\* thread is the list of lock instructions it has still to run (todo) and the
\* stack of the locks it holds (held); the handler thread is h, the indexer
\* threads are runs.  An instruction acquires or releases a lock; id is the
\* index whose store the critical section works on (NULL: the catalog).
NoThread == [kind |-> "none", todo |-> <<>>, held |-> <<>>]

With(lock, id) == <<[a |-> "acq", lock |-> lock, id |-> id], [a |-> "rel", lock |-> lock, id |-> id]>>

\* with meta_db_lock: get_index_config_by_id, get_all_index_configs,
\* update_index_status, delete_index_config.
WithMeta == With("meta", NULL)

\* with index_db_lock: create_index_tables, update_indexing_status,
\* get_indexing_status, set_indexing_stop_requested, is_indexing_stop_requested.
WithStore(id) == With("index", id)

\* add_index_config: the catalog row under meta_db_lock, then
\* create_index_tables with meta_db_lock released, then the rollback under
\* meta_db_lock when create_index_tables raised.
add_index_nested(id, fails) ==
  <<[a |-> "acq", lock |-> "meta", id |-> NULL]>> \o WithStore(id)
    \o <<[a |-> "rel", lock |-> "meta", id |-> NULL]>>
add_index_locks(id, fails) ==
  WithMeta \o WithStore(id) \o (IF fails THEN WithMeta ELSE <<>>)

\* trigger_index_for_id (main.py 326-344), stop_indexing_for_id (353-362),
\* get_indexing_status_for_id (370-379), search_files (430, 505).
trigger_locks(id) == WithMeta \o WithStore(id) \o WithMeta \o WithStore(id)
stop_locks(id) == WithMeta \o WithStore(id) \o WithMeta
status_locks(id) == WithMeta \o WithStore(id) \o WithStore(id)
search_locks == WithMeta \o WithMeta

\* The per-file loop: the poll, then the status write.
RECURSIVE loop_locks(_, _)
loop_locks(id, n) == IF n = 0 THEN <<>> ELSE WithStore(id) \o WithStore(id) \o loop_locks(id, n - 1)

\* index_files with n files to index (indexer.py 80, 130, 132-137, 140-145,
\* 193, 201-208); for n = 0 update_indexing_status is called inside
\* "with index_db_lock" (134-135), update_index_status after it (136).
index_files_locks(id, n) ==
  WithMeta \o WithStore(id)
    \o (IF n = 0
          THEN <<[a |-> "acq", lock |-> "index", id |-> id]>> \o WithStore(id)
                 \o <<[a |-> "rel", lock |-> "index", id |-> id]>> \o WithMeta
          ELSE loop_locks(id, n) \o WithStore(id) \o WithStore(id) \o WithMeta)

\* update_index_files with n files to process (indexer.py 250, 304-305, 308,
\* 311-327, 409-416).
update_index_files_locks(id, n) ==
  WithMeta
    \o (IF n = 0 THEN WithStore(id) \o WithMeta
        ELSE WithStore(id) \o loop_locks(id, n) \o WithStore(id) \o WithStore(id) \o WithMeta)

\* The indexes the threads work on, and the number of files of a run (every
\* further file repeats the critical sections of the first).
LockIds == {1, 2}
HandlerPrograms ==
  {add_index_locks(id, fails) : id \in LockIds, fails \in BOOLEAN}
    \cup {WithMeta, search_locks}
    \cup UNION {{trigger_locks(id), stop_locks(id), status_locks(id)} : id \in LockIds}
IndexerPrograms ==
  UNION {{index_files_locks(id, n), update_index_files_locks(id, n)} : id \in LockIds, n \in {0, 1}}

Threads == {0} \cup Runs
Thread(t) == IF t = 0 THEN h ELSE runs[t]
Holds(t, lock) == \E n \in 1..Len(Thread(t).held) : Thread(t).held[n].lock = lock
Wants(t, lock) ==
  Thread(t).todo # <<>> /\ Head(Thread(t).todo).a = "acq" /\ Head(Thread(t).todo).lock = lock

\* threading.Lock: free; threading.RLock: free or held by the caller.
CanAcquire(t, lock) ==
  /\ \A u \in Threads \ {t} : ~Holds(u, lock)
  /\ lock = "meta" => ~Holds(t, lock)

SetThread(t, v) ==
  IF t = 0 THEN h' = v /\ UNCHANGED runs
  ELSE runs' = [runs EXCEPT ![t] = v] /\ UNCHANGED h

\* The handler takes a request; an indexer thread is started.
BeginProgram(t) ==
  /\ Thread(t).todo = <<>>
  /\ \E p \in IF t = 0 THEN HandlerPrograms ELSE IndexerPrograms :
       SetThread(t, [kind |-> IF t = 0 THEN "handler" ELSE "indexer", todo |-> p, held |-> <<>>])
  /\ UNCHANGED <<catVars, stores, fs, crashes, faults>>

Acquire(t) ==
  /\ Thread(t).todo # <<>>
  /\ Head(Thread(t).todo).a = "acq"
  /\ CanAcquire(t, Head(Thread(t).todo).lock)
  /\ SetThread(t, [Thread(t) EXCEPT !.todo = Tail(@), !.held = <<Head(Thread(t).todo)>> \o @])
  /\ UNCHANGED <<catVars, stores, fs, crashes, faults>>

Release(t) ==
  /\ Thread(t).todo # <<>>
  /\ Head(Thread(t).todo).a = "rel"
  /\ SetThread(t, [Thread(t) EXCEPT !.todo = Tail(@), !.held = Tail(@)])
  /\ UNCHANGED <<catVars, stores, fs, crashes, faults>>

InitLocks ==
  /\ indexes = [i \in Ids |-> IF i \in LockIds THEN NewRow(IF i = 1 THEN "a" ELSE "b", DbPath(i - 1, "a"))
                              ELSE NoRow]
  /\ nextId = 3
  /\ clock = MaxClock
  /\ stores = [p \in Paths |-> IF \E i \in LockIds : p = DbPath(i - 1, "a")
                               THEN CreateIndexTables(NoStore).store ELSE NoStore]
  /\ h = NoThread
  /\ fs = [f \in Files |-> FileIn(f)]
  /\ runs = [r \in Runs |-> NoThread]
  /\ crashes = 0
  /\ faults = 0

NextLocks == \E t \in Threads : BeginProgram(t) \/ Acquire(t) \/ Release(t)

SpecLocks == InitLocks /\ [][NextLocks]_vars

\* The index whose store thread u works on while it holds index_db_lock.
HeldId(u) == Thread(u).held[CHOOSE n \in 1..Len(Thread(u).held) : Thread(u).held[n].lock = "index"].id

\* A thread that cannot take its next step because another thread holds the lock.
Blocked(t, lock) == Wants(t, lock) /\ ~CanAcquire(t, lock)

\* C21: a thread that is about to enter a critical section on the store of
\* one index is never kept waiting by a thread that is inside a critical
\* section on the store of a different index.
C21_Independence ==
  \A t \in Threads, u \in Threads :
    (t # u /\ Blocked(t, "index") /\ Holds(u, "index")) => HeldId(u) = Head(Thread(t).todo).id

\* C22: no thread asks for index_db_lock while it holds meta_db_lock, none
\* asks for meta_db_lock while it holds a lock, and whenever some thread is
\* inside a request or a run, some such thread can take its next step.
C22_LockOrdering ==
  /\ \A t \in Threads : ~(Wants(t, "index") /\ Holds(t, "meta"))
  /\ \A t \in Threads : ~(Wants(t, "meta") /\ (Holds(t, "index") \/ Holds(t, "meta")))
  /\ (\E t \in Threads : Thread(t).todo # <<>>)
       => \E t \in Threads :
            /\ Thread(t).todo # <<>>
            /\ Head(Thread(t).todo).a = "acq" => CanAcquire(t, Head(Thread(t).todo).lock)

\* The handler holds meta_db_lock, one indexer thread is inside the nested
\* section of indexer.py 134-135 and the other waits for index_db_lock.
C22_Witness ==
  /\ Holds(0, "meta")
  /\ \E r \in Runs, q \in Runs :
       /\ Len(runs[r].held) = 2
       /\ Blocked(q, "index")

\* C23: when startup_event is about to call create_index_tables on the store
\* of an index that was initialized before (its settings and indexing_status
\* tables exist), the call does not raise, the store has all its tables
\* afterwards, and the rows and the status row it had are unchanged.
C23_IdempotentInit ==
  (h.kind = "startup" /\ h.pc = "index") =>
    \A id \in h.todo :
      LET s == stores[h.preIndexes[id].db_path]
          c == CreateIndexTables(s)
      IN HasAux(s) =>
           /\ c.ok
           /\ c.store.hasFiles /\ c.store.hasFts /\ c.store.hasAux
           /\ s.hasFiles => c.store.files = s.files
           /\ c.store.st = s.st /\ c.store.flag = s.flag

C25_WriteFailure ==
  [][\A r \in Runs :
       LET x == runs[r]
           y == runs'[r]
       IN /\ (/\ x.pc = "process" /\ y.pc \notin {"process", "killed"}
              /\ HasAux(St(r))
              /\ WriteFails(St(r), x.work[x.k + 1], fs)) =>
               /\ y.pc = IF x.k + 1 < x.total THEN "poll" ELSE "finalPoll"
               /\ y.k = x.k + 1
               /\ stores'[x.path].st = Status("running", x.total, x.k + 1, 0, r)
          /\ (/\ x.pc = "finalPoll" /\ y.pc \notin {"finalPoll", "killed", "except"}
              /\ ~St(r).flag) => y.pc = "complStore"
          /\ (x.pc = "complStore" /\ y.pc \notin {"complStore", "killed", "except"}) =>
               stores'[x.path].st = Status("completed", x.total, x.total, Now, r)]_vars

\* A run of update_index_files is about to write a file on a store whose
\* table files was dropped by a concurrent rebuild, with further files to come.
C25_Witness ==
  \E r \in Runs :
    /\ runs[r].pc = "process" /\ runs[r].mode = "update"
    /\ HasAux(St(r))
    /\ WriteFails(St(r), runs[r].work[runs[r].k + 1], fs)
    /\ runs[r].k + 1 < runs[r].total

\* C26: in both modes, once a run has processed a file that it inserts or
\* updates and whose modification time cannot be read, the store holds a row
\* for the file with a null date (and the run has gone on).
C26_MetadataFailure ==
  \A r \in Runs :
    (runs[r].pc \in {"poll", "process", "finalPoll", "complStore", "complCat", "done"}) =>
      \A n \in 1..runs[r].k :
        LET item == runs[r].work[n] IN
        (item[1] \in {"full", "ins", "upd"} /\ fs[item[2]].mtime = NULL) =>
          FileRow(item[2], fs[item[2]].content, NULL) \in St(r).files

\* C27: parse_search_query returns for every query it is called with, so no
\* search request stays inside the parser.
C27_ParserTermination ==
  h.kind = "search" => h.pc # "parse"

\* C28: in a run of update_index_files, once the first new or updated file
\* has been processed, every deleted file has been processed before it and
\* its row is gone from the store.
C28_DeletionOrder ==
  \A r \in Runs :
    LET x == runs[r] IN
    (x.mode = "update" /\ \E n \in 1..x.k : x.work[n][1] \in {"ins", "upd"}) =>
      \A n \in 1..Len(x.work) :
        x.work[n][1] = "del" =>
          /\ n <= x.k
          /\ \A m \in 1..(n - 1) : x.work[m][1] = "del"
          /\ x.work[n][2] \notin RowPaths(St(r).files)

\* A run with a deleted and a new file has just processed the new file.
C28_Witness ==
  \E r \in Runs :
    /\ runs[r].mode = "update" /\ runs[r].k = 2
    /\ runs[r].work[1][1] = "del" /\ runs[r].work[2][1] = "ins"
    /\ runs[r].work[2][2] \in RowPaths(St(r).files)

\* ------------------------------------------------------ commit batching ---
\* The transaction of the run's connection, by counts: a run over total
\* files, the first dels of them deleted files (update_index_files only); k:
\* the files processed so far (i + 1, processed_count); pending: the processed
\* files whose rows are written but not committed.
MaxBatch == 12
BatchSize == 10

BatchRun(mode, total, dels) ==
  [pc |-> IF total = 0 THEN "final" ELSE "poll", mode |-> mode, total |-> total, dels |-> dels,
   k |-> 0, pending |-> 0]
BatchIdle == [BatchRun("full", 0, 0) EXCEPT !.pc = "done"]

\* conn.commit(): the transaction ends, nothing is pending.
Commit(pending) == 0

\* update_indexing_status: INSERT OR REPLACE of the status row and
\* conn.commit() on the connection of the caller (database.py 336-338).
StatusWriteOnly(pending) == pending
StatusWrite(pending) == Commit(pending)

\* The file the run works on is of the deletion loop (indexer.py 311-326).
InDeletionLoop(x) == x.mode = "update" /\ x.k <= x.dels /\ x.dels > 0

\* indexer.py 141-145 / 312-316 / 330-334 / 368-372: the poll; on a stop
\* index_files breaks to the final commit, update_index_files returns and its
\* connection is closed, which rolls the open transaction back.
BatchPoll(r) ==
  /\ runs[r].pc = "poll"
  /\ \E stop \in BOOLEAN :
       Goto(r, IF ~stop THEN [runs[r] EXCEPT !.pc = "write"]
               ELSE IF runs[r].mode = "full" THEN [runs[r] EXCEPT !.pc = "final"]
               ELSE [runs[r] EXCEPT !.pc = "done", !.pending = 0])
  /\ UNCHANGED <<catVars, stores, h, fs, crashes, faults>>

\* indexer.py 174-191 / 318-325 / 336-359 / 374-400: the rows of the file
\* are written in the open transaction and the file is counted.
BatchWrite(r) ==
  /\ runs[r].pc = "write"
  /\ Goto(r, [runs[r] EXCEPT !.pc = "status", !.k = @ + 1, !.pending = @ + 1])
  /\ UNCHANGED <<catVars, stores, h, fs, crashes, faults>>

\* indexer.py 193 / 326 / 360 / 401: update_indexing_status("running", ...).
BatchStatus(r) ==
  /\ runs[r].pc = "status"
  /\ Goto(r, [runs[r] EXCEPT !.pending = StatusWrite(@),
                             !.pc = IF InDeletionLoop(runs[r])
                                    THEN (IF runs[r].k < runs[r].total THEN "poll" ELSE "final")
                                    ELSE "boundary"])
  /\ UNCHANGED <<catVars, stores, h, fs, crashes, faults>>

\* indexer.py 195-196 / 362-363 / 403-404: if processed % 10 == 0: conn.commit().
BatchBoundary(r) ==
  /\ runs[r].pc = "boundary"
  /\ Goto(r, [runs[r] EXCEPT !.pending = IF runs[r].k % BatchSize = 0 THEN Commit(@) ELSE @,
                             !.pc = IF runs[r].k < runs[r].total THEN "poll" ELSE "final"])
  /\ UNCHANGED <<catVars, stores, h, fs, crashes, faults>>

\* indexer.py 199 / 407: the final conn.commit().
BatchFinal(r) ==
  /\ runs[r].pc = "final"
  /\ Goto(r, [runs[r] EXCEPT !.pending = Commit(@), !.pc = "done"])
  /\ UNCHANGED <<catVars, stores, h, fs, crashes, faults>>

InitBatch ==
  /\ indexes = [i \in Ids |-> IF i = 1 THEN NewRow("a", FirstPath) ELSE NoRow]
  /\ nextId = 2
  /\ clock = 0
  /\ stores = [p \in Paths |-> IF p = FirstPath THEN CreateIndexTables(NoStore).store
                               ELSE NoStore]
  /\ h = Idle
  /\ fs = FullDir
  /\ crashes = 0
  /\ faults = 0
  /\ \E total \in 0..MaxBatch, dels \in 0..MaxBatch, mode \in {"full", "update"} :
       /\ dels <= total
       /\ mode = "full" => dels = 0
       /\ runs = [r \in Runs |-> IF r = 1 THEN BatchRun(mode, total, dels) ELSE BatchIdle]

NextBatch ==
  \/ BatchPoll(1)
  \/ BatchWrite(1)
  \/ BatchStatus(1)
  \/ BatchBoundary(1)
  \/ BatchFinal(1)

SpecBatch == InitBatch /\ [][NextBatch]_vars

\* C29: at no point of a run, in either mode and in the deletion loop too,
\* do more than 10 processed files have rows that are written but not
\* committed, and nothing is uncommitted once the run has ended.
C29_CommitBatching ==
  \A r \in Runs :
    /\ runs[r].pending <= BatchSize
    /\ runs[r].pc = "done" => runs[r].pending = 0

\* The eleventh file of a deletion loop has been deleted and counted and its
\* status write is next: the loop has passed ten files without a batch commit.
C29_Witness ==
  /\ runs[1].mode = "update" /\ runs[1].pc = "status"
  /\ runs[1].k = BatchSize + 1 /\ runs[1].dels > BatchSize
  /\ runs[1].pending = 1

\* C30: in every store the estimated_end_time of the status row is set
\* (neither null nor 0) only when the status is terminal, and a status row
\* that says 'started' or 'running' has it unset.
C30_EstimatedEndTime ==
  \A p \in Paths :
    LET st == stores[p].st IN
    /\ st.estimated_end_time \notin {NULL, 0} => st.status \in Terminal
    /\ st.status \in {"started", "running"} => st.estimated_end_time = 0

\* A run has completed (it wrote an end time) and a later run of the same
\* index has written 'running' over its status row.
C30_Witness ==
  \E r \in Runs, q \in Runs :
    /\ runs[r].pc = "done" /\ runs[r].term.status = "completed"
    /\ runs[r].term.estimated_end_time = Now
    /\ runs[q].path = runs[r].path
    /\ St(q).st.status = "running" /\ St(q).st.run = q /\ St(q).st.estimated_end_time = 0

\* C31: while a run of an index is in flight, a trigger request for the same
\* index is accepted: the handler clears the stop flag of the store and goes
\* on to start another run.
C31_NoRunGuard ==
  \A id \in Ids :
    (/\ HandlerFree /\ NextRun \in Runs
     /\ indexes[id] # NoRow
     /\ HasAux(stores[indexes[id].db_path])
     /\ \E r \in Runs : Active(runs[r]) /\ runs[r].id = id) =>
      ENABLED (/\ TriggerBegin(id)
               /\ h'.kind = "trigger" /\ h'.pc = "setRunning"
               /\ ~stores'[indexes[id].db_path].flag)

\* Two runs of one index are in flight; a stop was requested for the first
\* while a poll was still ahead, the second trigger has cleared the flag, and
\* the first run is about to poll without having seen the request.
C31_Witness ==
  \E r \in Runs, q \in Runs :
    /\ r # q /\ runs[r].id = runs[q].id
    /\ Active(runs[r]) /\ Active(runs[q])
    /\ runs[r].reqMid /\ runs[r].obs = NULL /\ runs[r].pc = "poll"
    /\ ~St(r).flag

\* C32: a search answered on the substring path returns exactly the stored
\* files whose content has every search term of the query as a literal
\* substring (no filter is declared).
C32_FallbackResultSet ==
  (h.kind = "search" /\ h.sql = "like") =>
    h.results =
      {x.path : x \in {y \in stores[FirstPath].files :
                         \A n \in 1..Len(search_terms(h.q)) :
                           Find(Text(y.content), clean_term(search_terms(h.q)[n]), 0) # -1}}

\* The words a query excludes: the tokens 'NOT word' the parser reads from
\* its terms '-word'.
Excluded(q) ==
  LET tokens == Tokenize(Strip(q), 0, <<>>).tokens IN
  {Slice(tokens[n], Len(NOT), Len(tokens[n])) :
     n \in {m \in 1..Len(tokens) : StartsWith(tokens[m], NOT)}}

\* C33: a search with an excluded word that is answered on the substring
\* path returns no file whose content contains the excluded word.
C33_FallbackExclusion ==
  (h.kind = "search" /\ h.sql = "like") =>
    \A w \in Excluded(h.q) :
      \A x \in stores[FirstPath].files :
        x.path \in h.results => ~Contains(Text(x.content), w)

\* ------------------------------------------- deletion during a rebuild ---
\* The index "a" with its store; the handlers trigger and delete, and the
\* indexer threads the triggers start (no stop request, no storage fault).
NextDelete ==
  \/ \E id \in Ids : TriggerBegin(id)
  \/ TriggerSetRunning
  \/ TriggerStarted
  \/ \E id \in Ids : DeleteRow(id)
  \/ DeleteArtifact
  \/ \E r \in Runs :
       \/ RunSetRunning(r)
       \/ RunConnect(r)
       \/ RunDrop(r)
       \/ RunCreate(r)
       \/ RunScan(r)
       \/ RunEmptyStore(r)
       \/ RunPoll(r)
       \/ RunProcess(r)
       \/ RunFinalPoll(r)
       \/ RunComplStore(r)
       \/ RunComplCat(r)
       \/ RunExcept(r)

SpecDelete == Init /\ [][NextDelete]_vars

\* C34: once an index has been deleted, the delete request has returned and
\* every run of the index has ended, no file exists at the db_path of the
\* index and the catalog has no row for it.
C34_DeleteDuringRun ==
  \A r \in Runs :
    (/\ runs[r].pc \in Ended
     /\ indexes[runs[r].id] = NoRow
     /\ HandlerFree
     /\ \A q \in Runs : runs[q].id = runs[r].id => runs[q].pc \in Ended) =>
      ~stores[runs[r].path].file

\* C35: after a run of update_index_files that ended 'completed', with the
\* metadata of every scanned file readable and every stored row that has the
\* file's current modification time holding its current content, the table
\* files holds exactly the rows a rebuild of the same directory would store.
C35_IncrementalEqualsRebuild ==
  \A r \in Runs :
    (/\ runs[r].mode = "update" /\ runs[r].pc = "done"
     /\ runs[r].term.status = "completed"
     /\ \A f \in Scan(fs) : fs[f].mtime # NULL
     /\ \A x \in runs[r].before :
          (x.path \in Scan(fs) /\ x.mdate = fs[x.path].mtime) => x.content = fs[x.path].content) =>
      St(r).files = Rebuilt(fs)

\* ------------------------------------------------- stale stop requests ---
\* Stop requests that are made only while no run is in flight (the index is
\* idle, or its earlier runs have ended), and the runs started after them.
StaleStop(id) == (\A r \in Runs : ~Active(runs[r])) /\ StopBegin(id)

StaleRunStep(r) ==
  \/ RunSetRunning(r)
  \/ RunConnect(r)
  \/ RunDrop(r)
  \/ RunCreate(r)
  \/ RunScan(r)
  \/ RunCheckTable(r)
  \/ RunDiff(r)
  \/ RunEmptyStore(r)
  \/ RunPoll(r)
  \/ RunProcess(r)
  \/ RunStopStore(r)
  \/ RunStopCat(r)
  \/ RunFinalPoll(r)
  \/ RunComplStore(r)
  \/ RunComplCat(r)

NextStale ==
  \/ \E id \in Ids : StaleStop(id)
  \/ StopStopping
  \/ \E id \in Ids : TriggerBegin(id)
  \/ TriggerSetRunning
  \/ TriggerStarted
  \/ \E id \in Ids : StartUpdate(id)
  \/ \E r \in Runs : StaleRunStep(r)

SpecStale == Init /\ [][NextStale]_vars

\* The same steps with the scheduling of the program: a handler that has
\* begun runs to its end (an async def without await), and a thread that can
\* take a step is scheduled in the end.  Requests are under no obligation.
SpecStaleFair ==
  /\ SpecStale
  /\ WF_vars(StopStopping) /\ WF_vars(TriggerSetRunning) /\ WF_vars(TriggerStarted)
  /\ \A r \in Runs : WF_vars(StaleRunStep(r))

\* C36: when every stop request is made while no run is in flight, no run of
\* either mode finds the stop flag set at a poll, and none ends 'stopped'.
C36_StaleStop ==
  \A r \in Runs :
    /\ runs[r].obs = NULL
    /\ runs[r].pc \notin {"stopStore", "stopCat"}
    /\ runs[r].term.status # "stopped"

\* C37: whenever the catalog status of an index is 'stopping', it is
\* 'stopped', 'completed' or 'failed' at some later point.
C37_StoppingTransient ==
  \A id \in Ids : (indexes[id].status = "stopping") ~> (indexes[id].status \in Terminal)

C39_CounterBound ==
  \A p \in Paths :
    LET st == stores[p].st IN
    (st.total # NULL /\ st.processed # NULL) => (0 <= st.processed /\ st.processed <= st.total)

\* A run was stopped after its first file: the store says 'stopped' with
\* one of two files processed.
C39_Witness ==
  \E p \in Paths :
    /\ stores[p].st.status = "stopped"
    /\ stores[p].st.processed = 1 /\ stores[p].st.total = 2
====
